---- MODULE Spec2Model ----
(***************************************************************************)
(* Model of the archive package of mprimi/natscli: the tag naming          *)
(* function (archive/tag.go), the archive Writer (archive/writer.go) and   *)
(* the archive Reader with its tag query (archive/reader.go).              *)
(*                                                                         *)
(* Strings are TLA+ strings and paths are built with \o, so two paths are  *)
(* equal exactly when fmt.Sprintf would produce the same bytes.            *)
(***************************************************************************)
EXTENDS Integers, Sequences, FiniteSets, TLC

VARIABLES
  nTags,       \* naming: the []*Tag argument being assembled by the caller
  nRes,        \* naming: outcome of createFilenameFromTags(nTags), or NotCalled
  zipWriter,   \* Writer.zipWriter: "open" or "nil"
  fileWriter,  \* Writer.fileWriter: "open" or "nil"
  manifestMap, \* Writer.manifestMap: path -> tag list
  container,   \* entries created in the zip, in order: [name, content]
  archiveOk,   \* the zip central directory has been written (zip.Writer.Close succeeded)
  crashed,     \* the process panicked
  failures,    \* number of library calls that have failed so far
  reader,      \* the Reader returned by NewReader, or NoReader
  last,        \* the last call made and what it returned
  held,        \* the list the caller got from the last accessor call, or NoList
  analysis     \* what the last run of the analyzer returned, or NotAnalyzed

vars == <<nTags, nRes, zipWriter, fileWriter, manifestMap, container,
          archiveOk, crashed, failures, reader, last, held, analysis>>

namingVars == <<nTags, nRes>>
archiveVars == <<zipWriter, fileWriter, manifestMap, container, archiveOk,
                 crashed, failures, reader, last, held, analysis>>

(***************************************************************************)
(* Bounds                                                                  *)
(***************************************************************************)
MaxTags == 5
MaxEntries == 2
MaxFailures == 1
MaxFiles == 3
MaxManifest == 3

(***************************************************************************)
(* archive/tag.go: labels, artifact types, constants                       *)
(***************************************************************************)
serverTagLabel == "server"
clusterTagLabel == "cluster"
accountTagLabel == "account"
streamTagLabel == "stream"
typeTagLabel == "artifact_type"
profileNameTagLabel == "profile_name"

healtzArtifactType == "health"
varzArtifactType == "variables"
accountInfoArtifactType == "account_info"
streamDetailsArtifactType == "stream_info"
manifestArtifactType == "manifest"
profileArtifactType == "profile"

ManifestFileName == "capture/manifest.json"
NoCluster == "unclustered"
rootPrefix == "capture/"
separator == "__"
captureLogName == rootPrefix \o "capture.log"
metadataName == rootPrefix \o "capture_info.json"

Tag(name, value) == [Name |-> name, Value |-> value]

TagArtifactType(artifactType) == Tag(typeTagLabel, artifactType)
TagServerHealth == TagArtifactType(healtzArtifactType)
TagServerVars == TagArtifactType(varzArtifactType)
TagAccountInfo == TagArtifactType(accountInfoArtifactType)
TagStreamInfo == TagArtifactType(streamDetailsArtifactType)
TagServerProfile == TagArtifactType(profileArtifactType)
internalTagManifest == TagArtifactType(manifestArtifactType)
TagServer(serverName) == Tag(serverTagLabel, serverName)
TagCluster(clusterName) == Tag(clusterTagLabel, clusterName)
TagNoCluster == Tag(clusterTagLabel, NoCluster)
TagAccount(accountName) == Tag(accountTagLabel, accountName)
TagStream(streamName) == Tag(streamTagLabel, streamName)
TagProfileName(profileType) == Tag(profileNameTagLabel, profileType)

\* Special tag that results in a special file path
specialFilesTagMap == [t \in {internalTagManifest} |-> rootPrefix \o "manifest.json"]

\* Special tags that get composed and combined in the filename
dimensionTagsNames ==
  {accountTagLabel, clusterTagLabel, serverTagLabel, streamTagLabel,
   typeTagLabel, profileNameTagLabel}

(***************************************************************************)
(* Outcomes of a call: a returned path, a returned error, or a panic.      *)
(***************************************************************************)
Ok(path) == [kind |-> "ok", path |-> path, err |-> ""]
Err(msg) == [kind |-> "error", path |-> "", err |-> msg]
Panic(msg) == [kind |-> "panic", path |-> "", err |-> msg]

EmptyMap == [x \in {} |-> x]

\* m[k] = v, as a Go map assignment
MapPut(m, k, v) == [x \in DOMAIN m \cup {k} |-> IF x = k THEN v ELSE m[x]]

(***************************************************************************)
(* The loop of createFilenameFromTags over the tags (tag.go:105-122): it   *)
(* returns an error at the first special tag or repeated dimension label,  *)
(* and otherwise the dimension map and the list of other tags.             *)
(***************************************************************************)
\* scanTags where a repeated dimension label replaces the earlier tag
RECURSIVE scanTags_lastWins(_, _, _, _)
scanTags_lastWins(tags, i, dimensionTagsMap, otherTags) ==
  IF i > Len(tags)
  THEN [kind |-> "scanned", dimensionTagsMap |-> dimensionTagsMap, otherTags |-> otherTags]
  ELSE LET tag == tags[i]
       IN IF tag \in DOMAIN specialFilesTagMap
          THEN Err("tag '" \o tag.Name \o "' is special and should not be combined with other tags")
          ELSE IF tag.Name \in dimensionTagsNames
          THEN scanTags_lastWins(tags, i + 1, MapPut(dimensionTagsMap, tag.Name, tag), otherTags)
          ELSE scanTags_lastWins(tags, i + 1, dimensionTagsMap, Append(otherTags, tag))

RECURSIVE scanTags(_, _, _, _)
scanTags(tags, i, dimensionTagsMap, otherTags) ==
  IF i > Len(tags)
  THEN [kind |-> "scanned", dimensionTagsMap |-> dimensionTagsMap, otherTags |-> otherTags]
  ELSE LET tag == tags[i]
           isDimensionTag == tag.Name \in dimensionTagsNames
           isDuplicateDimensionTag == tag.Name \in DOMAIN dimensionTagsMap
       IN IF tag \in DOMAIN specialFilesTagMap
          THEN Err("tag '" \o tag.Name \o "' is special and should not be combined with other tags")
          ELSE IF isDimensionTag /\ isDuplicateDimensionTag
          THEN Err("multiple values not allowed for tag '" \o tag.Name \o "'")
          ELSE IF isDimensionTag
          THEN scanTags(tags, i + 1, MapPut(dimensionTagsMap, tag.Name, tag), otherTags)
          ELSE scanTags(tags, i + 1, dimensionTagsMap, Append(otherTags, tag))

\* The names of the required-tag table (tag.go:140-144).  Go ranges over the
\* map literal in an unspecified order: an order is a sequence of the names.
requiredTagNames == {"artifact type", "source cluster", "source server"}

RequiredOrders ==
  {o \in [1..3 -> requiredTagNames] : \A a, b \in 1..3 : a # b => o[a] # o[b]}

\* the order in which the required-tag table is written in the source
SourceOrder == <<"artifact type", "source cluster", "source server">>

\* a required-tag loop that checks nothing
checkRequired_none(has, order, i) == Ok("")

\* The required-tag loop (tag.go:140-148) under the iteration order `order`
RECURSIVE checkRequired(_, _, _)
checkRequired(has, order, i) ==
  IF i > Len(order) THEN Ok("")
  ELSE IF ~has[order[i]] THEN Err("missing required tag: " \o order[i])
  ELSE checkRequired(has, order, i + 1)

\* composeName with the account rule tried before the stream rule
composeName_accountFirst(dimensionTagsMap, order) ==
  LET hasAccountTag == accountTagLabel \in DOMAIN dimensionTagsMap
      hasClusterTag == clusterTagLabel \in DOMAIN dimensionTagsMap
      hasServerTag == serverTagLabel \in DOMAIN dimensionTagsMap
      hasStreamTag == streamTagLabel \in DOMAIN dimensionTagsMap
      hasTypeTag == typeTagLabel \in DOMAIN dimensionTagsMap
      hasProfileNameTag == profileNameTagLabel \in DOMAIN dimensionTagsMap
      accountTag == dimensionTagsMap[accountTagLabel]
      clusterTag == dimensionTagsMap[clusterTagLabel]
      serverTag == dimensionTagsMap[serverTagLabel]
      streamTag == dimensionTagsMap[streamTagLabel]
      typeTag == dimensionTagsMap[typeTagLabel]
      profileNameTag == dimensionTagsMap[profileNameTagLabel]
      required == checkRequired([n \in requiredTagNames |->
                                   CASE n = "artifact type" -> hasTypeTag
                                     [] n = "source cluster" -> hasClusterTag
                                     [] n = "source server" -> hasServerTag],
                                order, 1)
      clusterName == IF hasClusterTag THEN clusterTag.Value ELSE NoCluster
  IN IF required.kind = "error" THEN required
     ELSE IF hasAccountTag
     THEN IF ~hasClusterTag
          THEN Err("account artifact is missing cluster tag")
          ELSE Ok(rootPrefix \o "accounts/" \o accountTag.Value \o "/servers/"
                  \o clusterTag.Value \o "__" \o serverTag.Value
                  \o "/" \o typeTag.Value \o ".json")
     ELSE IF hasStreamTag
     THEN IF ~hasClusterTag \/ ~hasAccountTag
          THEN Err("stream artifact is missing cluster or account tags")
          ELSE Ok(rootPrefix \o "accounts/" \o accountTag.Value \o "/streams/" \o streamTag.Value
                  \o "/replicas/" \o clusterTag.Value \o "__" \o serverTag.Value
                  \o "/" \o typeTag.Value \o ".json")
     ELSE IF hasServerTag
     THEN IF typeTag.Value = profileArtifactType
          THEN IF ~hasProfileNameTag
               THEN Err("profile artifact is missing profile name")
               ELSE Ok(rootPrefix \o "profiles/" \o clusterName \o "/" \o serverTag.Value
                       \o "__" \o profileNameTag.Value \o ".prof")
          ELSE Ok(rootPrefix \o "clusters/" \o clusterName \o "/" \o serverTag.Value
                  \o "/" \o typeTag.Value \o ".json")
     ELSE Panic("Unhandled tags combination")

\* The path composition of createFilenameFromTags (tag.go:130-194)
composeName(dimensionTagsMap, order) ==
  LET hasAccountTag == accountTagLabel \in DOMAIN dimensionTagsMap
      hasClusterTag == clusterTagLabel \in DOMAIN dimensionTagsMap
      hasServerTag == serverTagLabel \in DOMAIN dimensionTagsMap
      hasStreamTag == streamTagLabel \in DOMAIN dimensionTagsMap
      hasTypeTag == typeTagLabel \in DOMAIN dimensionTagsMap
      hasProfileNameTag == profileNameTagLabel \in DOMAIN dimensionTagsMap
      accountTag == dimensionTagsMap[accountTagLabel]
      clusterTag == dimensionTagsMap[clusterTagLabel]
      serverTag == dimensionTagsMap[serverTagLabel]
      streamTag == dimensionTagsMap[streamTagLabel]
      typeTag == dimensionTagsMap[typeTagLabel]
      profileNameTag == dimensionTagsMap[profileNameTagLabel]
      required == checkRequired([n \in requiredTagNames |->
                                   CASE n = "artifact type" -> hasTypeTag
                                     [] n = "source cluster" -> hasClusterTag
                                     [] n = "source server" -> hasServerTag],
                                order, 1)
      clusterName == IF hasClusterTag THEN clusterTag.Value ELSE NoCluster
  IN IF required.kind = "error" THEN required
     ELSE IF hasStreamTag
     THEN IF ~hasClusterTag \/ ~hasAccountTag
          THEN Err("stream artifact is missing cluster or account tags")
          ELSE Ok(rootPrefix \o "accounts/" \o accountTag.Value \o "/streams/" \o streamTag.Value
                  \o "/replicas/" \o clusterTag.Value \o "__" \o serverTag.Value
                  \o "/" \o typeTag.Value \o ".json")
     ELSE IF hasAccountTag
     THEN IF ~hasClusterTag
          THEN Err("account artifact is missing cluster tag")
          ELSE Ok(rootPrefix \o "accounts/" \o accountTag.Value \o "/servers/"
                  \o clusterTag.Value \o "__" \o serverTag.Value
                  \o "/" \o typeTag.Value \o ".json")
     ELSE IF hasServerTag
     THEN IF typeTag.Value = profileArtifactType
          THEN IF ~hasProfileNameTag
               THEN Err("profile artifact is missing profile name")
               ELSE Ok(rootPrefix \o "profiles/" \o clusterName \o "/" \o serverTag.Value
                       \o "__" \o profileNameTag.Value \o ".prof")
          ELSE Ok(rootPrefix \o "clusters/" \o clusterName \o "/" \o serverTag.Value
                  \o "/" \o typeTag.Value \o ".json")
     ELSE Panic("Unhandled tags combination")

\* createFilenameFromTags where the special tag short-circuits whenever it
\* comes first, whatever the length of the list
createFilenameFromTags_firstTagSpecial(tags, order) ==
  IF Len(tags) < 1 THEN Err("at least one tag is required")
  ELSE IF tags[1] \in DOMAIN specialFilesTagMap
  THEN Ok(specialFilesTagMap[tags[1]])
  ELSE LET scan == scanTags(tags, 1, EmptyMap, <<>>)
       IN IF scan.kind = "error" THEN scan
          ELSE IF Len(scan.otherTags) > 0 THEN Panic("Unhandled tags")
          ELSE composeName(scan.dimensionTagsMap, order)

\* createFilenameFromTags (tag.go:84-195); `order` is the iteration order of
\* the required-tag table, which only selects the text of the error.
createFilenameFromTags(tags, order) ==
  IF Len(tags) < 1 THEN Err("at least one tag is required")
  ELSE IF Len(tags) = 1 /\ tags[1] \in DOMAIN specialFilesTagMap
  THEN Ok(specialFilesTagMap[tags[1]])
  ELSE LET scan == scanTags(tags, 1, EmptyMap, <<>>)
       IN IF scan.kind = "error" THEN scan
          ELSE IF Len(scan.otherTags) > 0 THEN Panic("Unhandled tags")
          ELSE composeName(scan.dimensionTagsMap, order)

(***************************************************************************)
(* Specification of the naming function alone: a caller assembles a tag    *)
(* list, may reorder it, and calls createFilenameFromTags on it.           *)
(***************************************************************************)
NotCalled == [kind |-> "none", path |-> "", err |-> ""]

\* Tags a caller can build with the constructors of tag.go (tag.go:197-309).
\* TagArtifactType("manifest") is the same Tag value as internalTagManifest.
NamingTags ==
  {TagServer("S1"), TagCluster("C1"), TagNoCluster, TagAccount("A1"),
   TagStream("ORDERS"), TagServerHealth, TagServerProfile,
   TagArtifactType(manifestArtifactType), TagProfileName("cpu")}

\* tags with the elements at positions i and i+1 exchanged
SwapAt(tags, i) ==
  [k \in 1..Len(tags) |-> IF k = i THEN tags[i + 1] ELSE IF k = i + 1 THEN tags[i] ELSE tags[k]]

NoReader == [open |-> FALSE, filesMap |-> EmptyMap, manifestMap |-> EmptyMap, warnings |-> {}]

\* the analyzer has not run
NotAnalyzed == [ran |-> FALSE, err |-> "", wraps |-> "", checkName |-> "",
                checkOutcomes |-> <<>>, warnings |-> {}]

\* the caller holds no list
NoList == [field |-> "", key |-> <<>>, list |-> <<>>, shared |-> FALSE]

InitNaming ==
  /\ nTags = <<>>
  /\ nRes = NotCalled

InitArchive ==
  /\ zipWriter = "open"
  /\ fileWriter = "open"
  /\ manifestMap = EmptyMap
  /\ container = <<>>
  /\ archiveOk = FALSE
  /\ crashed = FALSE
  /\ failures = 0
  /\ reader = NoReader
  /\ last = [op |-> "NewWriter", tags |-> <<>>, res |-> "ok", err |-> "", out |-> ""]
  /\ held = NoList
  /\ analysis = NotAnalyzed

\* the caller appends one more tag to the list
NPick(t) ==
  /\ Len(nTags) < MaxTags
  /\ nTags' = Append(nTags, t)
  /\ nRes' = NotCalled
  /\ UNCHANGED archiveVars

\* the caller reorders the list
NSwap(i) ==
  /\ i \in 1..(Len(nTags) - 1)
  /\ nTags[i] # nTags[i + 1]
  /\ nTags' = SwapAt(nTags, i)
  /\ nRes' = NotCalled
  /\ UNCHANGED archiveVars

\* the call itself
NCall(order) ==
  /\ nRes = NotCalled
  /\ nRes' = createFilenameFromTags(nTags, order)
  /\ UNCHANGED <<nTags>>
  /\ UNCHANGED archiveVars

NextNaming ==
  \/ \E t \in NamingTags : NPick(t)
  \/ \E i \in 1..MaxTags : NSwap(i)
  \/ \E order \in RequiredOrders : NCall(order)

Init == InitNaming /\ InitArchive

SpecNaming == Init /\ [][NextNaming]_vars

(***************************************************************************)
(* Entry contents.  encoding/json is modelled by what it produces: a JSON  *)
(* string for an artifact value, a JSON object with one member per map key *)
(* for the manifest.  Raw bytes and truncated entries are not JSON.        *)
(***************************************************************************)
\* The caller adds a different value with every call, as the tests do with
\* their random records: the k-th entry of the archive carries artifact k.
artifactNo(k) == "v" \o ToString(k)

Artifacts == {artifactNo(k) : k \in 1..(MaxEntries + 1)}

\* json.Encoder.Encode of an artifact value (writer.go:83-89)
encodeArtifact(v) == [kind |-> "json-string", text |-> "\"" \o v \o "\"", members |-> {}]

\* an encoding of the manifest that keeps only the first tag of every entry
encodeManifest_firstTagOnly(m) ==
  [kind |-> "json-object", text |-> "",
   members |-> {<<p, SubSeq(m[p], 1, 1)>> : p \in DOMAIN m}]

\* json.Encoder.Encode of the manifest map[string][]*Tag (writer.go:36, 83-89)
encodeManifest(m) ==
  [kind |-> "json-object", text |-> "", members |-> {<<p, m[p]>> : p \in DOMAIN m}]

\* bytes handed to AddObject or AddCaptureLog by the caller
rawBytes(b) == [kind |-> "bytes", text |-> b, members |-> {}]

\* what an entry holds when io.Copy failed part-way
truncatedContent == [kind |-> "truncated", text |-> "", members |-> {}]

\* json.Decoder.Decode into the caller's value (reader.go:60-64)
decodeArtifact(c) ==
  IF c.kind = "json-string" /\ \E v \in Artifacts : c.text = "\"" \o v \o "\""
  THEN [kind |-> "ok", value |-> CHOOSE v \in Artifacts : c.text = "\"" \o v \o "\""]
  ELSE [kind |-> "error", value |-> ""]

\* a decoding of the manifest that keeps the paths and loses their tags
decodeManifest_dropsTags(c) ==
  IF c.kind = "json-object"
  THEN [kind |-> "ok", value |-> [p \in {e[1] : e \in c.members} |-> <<>>]]
  ELSE [kind |-> "error", value |-> EmptyMap]

\* json.Decoder.Decode into map[string][]Tag (reader.go:151-155)
decodeManifest(c) ==
  IF c.kind = "json-object"
  THEN [kind |-> "ok",
        value |-> [p \in {e[1] : e \in c.members} |->
                     (CHOOSE e \in c.members : e[1] = p)[2]]]
  ELSE [kind |-> "error", value |-> EmptyMap]

(***************************************************************************)
(* archive/writer.go                                                       *)
(***************************************************************************)
\* Tag lists the caller passes to Add and AddObject
AddTagLists ==
  {<<TagCluster("C1"), TagServer("S1"), TagServerHealth>>,
   <<TagServerHealth, TagServer("S1"), TagCluster("C1")>>,
   <<TagCluster("C1"), TagServer("S1"), TagServerHealth, TagProfileName("cpu")>>,
   <<TagAccount("A1"), TagCluster("C1"), TagServer("S1"), TagServerHealth>>,
   <<TagAccount("A1"), TagServer("S1"), TagAccountInfo>>,
   <<TagAccount("A1"), TagNoCluster, TagServer("S1"), TagAccountInfo>>,
   <<TagAccount("A1"), TagStream("ORDERS"), TagCluster("C1"), TagServer("S2"), TagStreamInfo>>,
   <<TagArtifactType(manifestArtifactType)>>}

\* Tag lists the caller passes to AddObject with raw bytes (profiles)
RawTagLists ==
  {<<TagCluster("C1"), TagServer("S1"), TagServerProfile, TagProfileName("cpu")>>}

\* createFilenameFromTags over the tag lists the archive specification
\* passes to it, evaluated once and kept as a table
RECURSIVE tabulate(_)
tabulate(args) ==
  IF args = {} THEN EmptyMap
  ELSE LET a == CHOOSE x \in args : TRUE
       IN (a :> createFilenameFromTags(a[1], a[2])) @@ tabulate(args \ {a})

fileNameTable ==
  tabulate((AddTagLists \cup RawTagLists \cup {<<internalTagManifest>>}) \X RequiredOrders)

\* the call createFilenameFromTags(tags) made by AddObject and NewReader
fileNameOf(tags, order) ==
  IF <<tags, order>> \in DOMAIN fileNameTable
  THEN fileNameTable[<<tags, order>>]
  ELSE createFilenameFromTags(tags, order)

IOFailures == {"none", "create", "copy"}

\* AddObject without the uniqueness check of writer.go:106-110
AddObject_noUniqueCheck(zw, mm, cont, content, tags, order, io) ==
  LET r == fileNameOf(tags, order)
      unchanged == [manifestMap |-> mm, container |-> cont]
  IN IF zw = "nil"
     THEN [res |-> "error", err |-> "attempting to write into a closed writer"] @@ unchanged
     ELSE IF r.kind = "panic"
     THEN [res |-> "panic", err |-> r.err] @@ unchanged
     ELSE IF r.kind = "error"
     THEN [res |-> "error", err |-> "failed to create artifact name: " \o r.err] @@ unchanged
     ELSE IF io = "create"
     THEN [res |-> "error", err |-> "failed to create file in archive"] @@ unchanged
     ELSE IF io = "copy"
     THEN [res |-> "error", err |-> "failed to copy content",
           manifestMap |-> mm,
           container |-> Append(cont, [name |-> r.path, content |-> truncatedContent])]
     ELSE [res |-> "ok", err |-> "",
           manifestMap |-> MapPut(mm, r.path, tags),
           container |-> Append(cont, [name |-> r.path, content |-> content])]

\* AddObject that records the entry in the manifest although io.Copy failed
AddObject_recordOnCopyFailure(zw, mm, cont, content, tags, order, io) ==
  LET r == fileNameOf(tags, order)
      unchanged == [manifestMap |-> mm, container |-> cont]
  IN IF zw = "nil"
     THEN [res |-> "error", err |-> "attempting to write into a closed writer"] @@ unchanged
     ELSE IF r.kind = "panic"
     THEN [res |-> "panic", err |-> r.err] @@ unchanged
     ELSE IF r.kind = "error"
     THEN [res |-> "error", err |-> "failed to create artifact name: " \o r.err] @@ unchanged
     ELSE IF r.path \in DOMAIN mm
     THEN [res |-> "error",
           err |-> "artifact " \o r.path \o " with identical tags is already present"] @@ unchanged
     ELSE IF io = "create"
     THEN [res |-> "error", err |-> "failed to create file in archive"] @@ unchanged
     ELSE IF io = "copy"
     THEN [res |-> "error", err |-> "failed to copy content",
           manifestMap |-> MapPut(mm, r.path, tags),
           container |-> Append(cont, [name |-> r.path, content |-> truncatedContent])]
     ELSE [res |-> "ok", err |-> "",
           manifestMap |-> MapPut(mm, r.path, tags),
           container |-> Append(cont, [name |-> r.path, content |-> content])]

\* AddObject that records the path in the manifest before it creates the entry
AddObject_recordFirst(zw, mm, cont, content, tags, order, io) ==
  LET r == fileNameOf(tags, order)
      unchanged == [manifestMap |-> mm, container |-> cont]
  IN IF zw = "nil"
     THEN [res |-> "error", err |-> "attempting to write into a closed writer"] @@ unchanged
     ELSE IF r.kind = "panic"
     THEN [res |-> "panic", err |-> r.err] @@ unchanged
     ELSE IF r.kind = "error"
     THEN [res |-> "error", err |-> "failed to create artifact name: " \o r.err] @@ unchanged
     ELSE IF r.path \in DOMAIN mm
     THEN [res |-> "error",
           err |-> "artifact " \o r.path \o " with identical tags is already present"] @@ unchanged
     ELSE IF io = "create"
     THEN [res |-> "error", err |-> "failed to create file in archive",
           manifestMap |-> MapPut(mm, r.path, tags), container |-> cont]
     ELSE IF io = "copy"
     THEN [res |-> "error", err |-> "failed to copy content",
           manifestMap |-> MapPut(mm, r.path, tags),
           container |-> Append(cont, [name |-> r.path, content |-> truncatedContent])]
     ELSE [res |-> "ok", err |-> "",
           manifestMap |-> MapPut(mm, r.path, tags),
           container |-> Append(cont, [name |-> r.path, content |-> content])]

\* Writer.AddObject (writer.go:95-127) on a writer with the given fields.
\* io tells which library call fails: zip.Writer.Create, io.Copy, or none.
AddObject(zw, mm, cont, content, tags, order, io) ==
  LET r == fileNameOf(tags, order)
      unchanged == [manifestMap |-> mm, container |-> cont]
  IN IF zw = "nil"
     THEN [res |-> "error", err |-> "attempting to write into a closed writer"] @@ unchanged
     ELSE IF r.kind = "panic"
     THEN [res |-> "panic", err |-> r.err] @@ unchanged
     ELSE IF r.kind = "error"
     THEN [res |-> "error", err |-> "failed to create artifact name: " \o r.err] @@ unchanged
     ELSE IF r.path \in DOMAIN mm
     THEN [res |-> "error",
           err |-> "artifact " \o r.path \o " with identical tags is already present"] @@ unchanged
     ELSE IF io = "create"
     THEN [res |-> "error", err |-> "failed to create file in archive"] @@ unchanged
     ELSE IF io = "copy"
     THEN [res |-> "error", err |-> "failed to copy content",
           manifestMap |-> mm,
           container |-> Append(cont, [name |-> r.path, content |-> truncatedContent])]
     ELSE [res |-> "ok", err |-> "",
           manifestMap |-> MapPut(mm, r.path, tags),
           container |-> Append(cont, [name |-> r.path, content |-> content])]

\* AddObject gets as far as zip.Writer.Create (writer.go:113); a library
\* failure can only be drawn for a step the call executes
reachesCreate(zw, mm, tags, order) ==
  LET r == fileNameOf(tags, order)
  IN zw = "open" /\ r.kind = "ok" /\ r.path \notin DOMAIN mm

\* the iteration order changes what the call returns
orderMatters(tags, order) ==
  \/ order = SourceOrder
  \/ fileNameOf(tags, order) # fileNameOf(tags, SourceOrder)

\* Writer.addArtifact (writer.go:65-76): no closed-writer check, the call on
\* a nil zip writer dereferences nil.
addArtifact(zw, cont, name, content, io) ==
  IF zw = "nil"
  THEN [res |-> "panic", err |-> "nil pointer dereference", container |-> cont]
  ELSE IF io = "create"
  THEN [res |-> "error", err |-> "create failed", container |-> cont]
  ELSE IF io = "copy"
  THEN [res |-> "error", err |-> "copy failed",
        container |-> Append(cont, [name |-> name, content |-> truncatedContent])]
  ELSE [res |-> "ok", err |-> "",
        container |-> Append(cont, [name |-> name, content |-> content])]

\* a library call fails in this step: at most MaxFailures of them in a run
Fails(io) ==
  /\ io # "none" => failures < MaxFailures
  /\ failures' = IF io = "none" THEN failures ELSE failures + 1

Call(op, tags, res, err, out) ==
  [op |-> op, tags |-> tags, res |-> res, err |-> err, out |-> out]

\* Writer.Add (writer.go:81-92): encode, then AddObject
Add(artifact, tags, order, io) ==
  /\ ~crashed
  /\ ~reader.open
  /\ artifact = artifactNo(Len(container) + 1)
  /\ Fails(io)
  /\ io # "none" => reachesCreate(zipWriter, manifestMap, tags, order)
  /\ orderMatters(tags, order)
  /\ LET r == AddObject(zipWriter, manifestMap, container, encodeArtifact(artifact),
                        tags, order, io)
     IN /\ Len(r.container) <= MaxEntries
        /\ manifestMap' = r.manifestMap
        /\ container' = r.container
        /\ crashed' = (r.res = "panic")
        /\ last' = Call("Add", tags, r.res, r.err, "")
  /\ UNCHANGED <<zipWriter, fileWriter, archiveOk, reader>>
  /\ UNCHANGED <<namingVars, held, analysis>>

\* Writer.AddObject called by the user with raw bytes
AddObjectCall(bytes, tags, order, io) ==
  /\ ~crashed
  /\ ~reader.open
  /\ Fails(io)
  /\ io # "none" => reachesCreate(zipWriter, manifestMap, tags, order)
  /\ orderMatters(tags, order)
  /\ LET r == AddObject(zipWriter, manifestMap, container, rawBytes(bytes), tags, order, io)
     IN /\ Len(r.container) <= MaxEntries
        /\ manifestMap' = r.manifestMap
        /\ container' = r.container
        /\ crashed' = (r.res = "panic")
        /\ last' = Call("AddObject", tags, r.res, r.err, "")
  /\ UNCHANGED <<zipWriter, fileWriter, archiveOk, reader>>
  /\ UNCHANGED <<namingVars, held, analysis>>

\* Writer.AddCaptureLog (writer.go:129-131)
AddCaptureLog(bytes, io) ==
  /\ ~crashed
  /\ ~reader.open
  /\ Fails(io)
  /\ io # "none" => zipWriter = "open"
  /\ LET r == addArtifact(zipWriter, container, captureLogName, rawBytes(bytes), io)
     IN /\ Len(r.container) <= MaxEntries
        /\ container' = r.container
        /\ crashed' = (r.res = "panic")
        /\ last' = Call("AddCaptureLog", <<>>, r.res, r.err, "")
  /\ UNCHANGED <<zipWriter, fileWriter, manifestMap, archiveOk, reader>>
  /\ UNCHANGED <<namingVars, held, analysis>>

\* AddCaptureMetadata that also files the entry in the manifest, without tags
AddCaptureMetadata_indexed(metadata, io) ==
  /\ ~crashed
  /\ ~reader.open
  /\ metadata = artifactNo(Len(container) + 1)
  /\ Fails(io)
  /\ io # "none" => zipWriter = "open"
  /\ LET r == addArtifact(zipWriter, container, metadataName, encodeArtifact(metadata), io)
     IN /\ Len(r.container) <= MaxEntries
        /\ container' = r.container
        /\ manifestMap' = IF r.res = "ok" THEN MapPut(manifestMap, metadataName, <<>>)
                          ELSE manifestMap
        /\ crashed' = (r.res = "panic")
        /\ last' = Call("AddCaptureMetadata", <<>>, r.res, r.err, "")
  /\ UNCHANGED <<zipWriter, fileWriter, archiveOk, reader>>
  /\ UNCHANGED <<namingVars, held, analysis>>

\* Writer.AddCaptureMetadata (writer.go:133-139)
AddCaptureMetadata(metadata, io) ==
  /\ ~crashed
  /\ ~reader.open
  /\ metadata = artifactNo(Len(container) + 1)
  /\ Fails(io)
  /\ io # "none" => zipWriter = "open"
  /\ LET r == addArtifact(zipWriter, container, metadataName, encodeArtifact(metadata), io)
     IN /\ Len(r.container) <= MaxEntries
        /\ container' = r.container
        /\ crashed' = (r.res = "panic")
        /\ last' = Call("AddCaptureMetadata", <<>>, r.res, r.err, "")
  /\ UNCHANGED <<zipWriter, fileWriter, manifestMap, archiveOk, reader>>
  /\ UNCHANGED <<namingVars, held, analysis>>

CloseFailures == IOFailures \cup {"zipclose", "fileclose"}

\* Writer.Close (writer.go:33-61).  io tells which library call fails:
\* Create or Copy of the manifest entry, zip.Writer.Close, os.File.Close.
Close(io) ==
  /\ ~crashed
  /\ ~reader.open
  /\ Fails(io)
  /\ io \in {"create", "copy"} =>
       /\ fileWriter = "open"
       /\ reachesCreate(zipWriter, manifestMap, <<internalTagManifest>>, SourceOrder)
  /\ io = "zipclose" => zipWriter = "open"
  /\ io = "fileclose" => fileWriter = "open"
  /\ LET addManifest == zipWriter = "open" /\ fileWriter = "open"
         r == IF addManifest
              THEN AddObject(zipWriter, manifestMap, container, encodeManifest(manifestMap),
                             <<internalTagManifest>>, SourceOrder,
                             IF io \in IOFailures THEN io ELSE "none")
              ELSE [res |-> "ok", err |-> "", manifestMap |-> manifestMap, container |-> container]
     IN /\ manifestMap' = r.manifestMap
        /\ container' = r.container
        /\ IF r.res # "ok"
           THEN \* writer.go:37-39: return before anything is closed
                /\ Len(r.container) <= MaxEntries
                /\ last' = Call("Close", <<>>, "error", "failed to add manifest", "")
                /\ UNCHANGED <<zipWriter, fileWriter, archiveOk>>
           ELSE IF zipWriter = "open" /\ io = "zipclose"
           THEN \* writer.go:43-48: the zip writer is dropped, the file is not closed
                /\ zipWriter' = "nil"
                /\ last' = Call("Close", <<>>, "error", "failed to close archive zip writer", "")
                /\ UNCHANGED <<fileWriter, archiveOk>>
           ELSE /\ zipWriter' = "nil"
                /\ archiveOk' = (archiveOk \/ zipWriter = "open")
                /\ fileWriter' = "nil"
                /\ IF fileWriter = "open" /\ io = "fileclose"
                   THEN last' = Call("Close", <<>>, "error", "failed to close archive file writer", "")
                   ELSE last' = Call("Close", <<>>, "ok", "", "")
  /\ UNCHANGED <<crashed, reader>>
  /\ UNCHANGED <<namingVars, held, analysis>>

(***************************************************************************)
(* archive/reader.go                                                       *)
(***************************************************************************)
\* filesMap of NewReader (reader.go:127-130): a later entry of the same name
\* replaces an earlier one
RECURSIVE buildFilesMap(_, _, _)
buildFilesMap(files, i, filesMap) ==
  IF i > Len(files) THEN filesMap
  ELSE buildFilesMap(files, i + 1, MapPut(filesMap, files[i].name, files[i].content))

\* NewReader without the check that every file of the manifest exists
openArchive_noIntegrityCheck(valid, files) ==
  LET filesMap == buildFilesMap(files, 1, EmptyMap)
      manifestFileName == fileNameOf(<<internalTagManifest>>, SourceOrder)
      decoded == decodeManifest(filesMap[manifestFileName.path])
      failed(msg) == [res |-> "error", err |-> msg, reader |-> NoReader]
  IN IF ~valid THEN failed("failed to open archive")
     ELSE IF manifestFileName.kind # "ok" THEN failed("failed to load manifest")
     ELSE IF manifestFileName.path \notin DOMAIN filesMap
     THEN failed("manifest file not found in archive")
     ELSE IF decoded.kind # "ok" THEN failed("failed to load manifest")
     ELSE [res |-> "ok", err |-> "",
           reader |-> [open |-> TRUE,
                       filesMap |-> filesMap,
                       manifestMap |-> decoded.value,
                       warnings |-> {fileName \in DOMAIN filesMap :
                                       /\ fileName # ManifestFileName
                                       /\ fileName \notin DOMAIN decoded.value}]]

\* NewReader that reads a missing manifest as an empty one
openArchive_emptyManifest(valid, files) ==
  LET filesMap == buildFilesMap(files, 1, EmptyMap)
      manifestFileName == fileNameOf(<<internalTagManifest>>, SourceOrder)
      decoded == decodeManifest(filesMap[manifestFileName.path])
      failed(msg) == [res |-> "error", err |-> msg, reader |-> NoReader]
  IN IF ~valid THEN failed("failed to open archive")
     ELSE IF manifestFileName.kind # "ok" THEN failed("failed to load manifest")
     ELSE IF manifestFileName.path \notin DOMAIN filesMap
     THEN [res |-> "ok", err |-> "",
           reader |-> [open |-> TRUE, filesMap |-> filesMap, manifestMap |-> EmptyMap,
                       warnings |-> DOMAIN filesMap]]
     ELSE IF decoded.kind # "ok" THEN failed("failed to load manifest")
     ELSE IF \E fileName \in DOMAIN decoded.value : fileName \notin DOMAIN filesMap
     THEN failed("file is in manifest, but not present in archive")
     ELSE [res |-> "ok", err |-> "",
           reader |-> [open |-> TRUE,
                       filesMap |-> filesMap,
                       manifestMap |-> decoded.value,
                       warnings |-> {fileName \in DOMAIN filesMap :
                                       /\ fileName # ManifestFileName
                                       /\ fileName \notin DOMAIN decoded.value}]]

\* NewReader that rejects an archive holding entries the manifest does not list
openArchive_strict(valid, files) ==
  LET filesMap == buildFilesMap(files, 1, EmptyMap)
      manifestFileName == fileNameOf(<<internalTagManifest>>, SourceOrder)
      decoded == decodeManifest(filesMap[manifestFileName.path])
      failed(msg) == [res |-> "error", err |-> msg, reader |-> NoReader]
  IN IF ~valid THEN failed("failed to open archive")
     ELSE IF manifestFileName.kind # "ok" THEN failed("failed to load manifest")
     ELSE IF manifestFileName.path \notin DOMAIN filesMap
     THEN failed("manifest file not found in archive")
     ELSE IF decoded.kind # "ok" THEN failed("failed to load manifest")
     ELSE IF \E fileName \in DOMAIN decoded.value : fileName \notin DOMAIN filesMap
     THEN failed("file is in manifest, but not present in archive")
     ELSE IF \E fileName \in DOMAIN filesMap :
               fileName # ManifestFileName /\ fileName \notin DOMAIN decoded.value
     THEN failed("file is not present in manifest")
     ELSE [res |-> "ok", err |-> "",
           reader |-> [open |-> TRUE,
                       filesMap |-> filesMap,
                       manifestMap |-> decoded.value,
                       warnings |-> {fileName \in DOMAIN filesMap :
                                       /\ fileName # ManifestFileName
                                       /\ fileName \notin DOMAIN decoded.value}]]

\* NewReader (reader.go:118-174), up to the integrity checks
openArchive(valid, files) ==
  LET filesMap == buildFilesMap(files, 1, EmptyMap)
      manifestFileName == fileNameOf(<<internalTagManifest>>, SourceOrder)
      decoded == decodeManifest(filesMap[manifestFileName.path])
      failed(msg) == [res |-> "error", err |-> msg, reader |-> NoReader]
  IN IF ~valid THEN failed("failed to open archive")
     ELSE IF manifestFileName.kind # "ok" THEN failed("failed to load manifest")
     ELSE IF manifestFileName.path \notin DOMAIN filesMap
     THEN failed("manifest file not found in archive")
     ELSE IF decoded.kind # "ok" THEN failed("failed to load manifest")
     ELSE IF \E fileName \in DOMAIN decoded.value : fileName \notin DOMAIN filesMap
     THEN failed("file is in manifest, but not present in archive")
     ELSE [res |-> "ok", err |-> "",
           reader |-> [open |-> TRUE,
                       filesMap |-> filesMap,
                       manifestMap |-> decoded.value,
                       warnings |-> {fileName \in DOMAIN filesMap :
                                       /\ fileName # ManifestFileName
                                       /\ fileName \notin DOMAIN decoded.value}]]

(***************************************************************************)
(* The indexes NewReader builds from the manifest (reader.go:176-271).  A  *)
(* Go map used as a set is a function whose domain is the set.             *)
(***************************************************************************)
\* the keys of a Go map in the order one range statement visits them; the
\* order is unspecified and lists built this way hold every key once
RECURSIVE rangeKeys(_)
rangeKeys(keys) ==
  IF keys = {} THEN <<>>
  ELSE LET k == CHOOSE x \in keys : TRUE
       IN <<k>> \o rangeKeys(keys \ {k})

\* the switch of reader.go:182-194: the value of the last tag of the list
\* that carries the label, the empty string when there is none
noteTag(tags, label) ==
  LET at == {i \in 1..Len(tags) : tags[i].Name = label}
  IN IF at = {} THEN ""
     ELSE tags[CHOOSE i \in at : \A j \in at : j <= i].Value

\* clustersServersMap after the loop of reader.go:180-223
clustersServersMap(mm) ==
  LET cluster(f) == noteTag(mm[f], clusterTagLabel)
      server(f) == noteTag(mm[f], serverTagLabel)
  IN [c \in {cluster(f) : f \in DOMAIN mm} \ {""} |->
        [sv \in {server(f) : f \in {g \in DOMAIN mm : cluster(g) = c}} \ {""} |-> TRUE]]

\* accountsStreamsMap after the loop of reader.go:180-223
accountsStreamsMap(mm) ==
  LET account(f) == noteTag(mm[f], accountTagLabel)
      stream(f) == noteTag(mm[f], streamTagLabel)
      server(f) == noteTag(mm[f], serverTagLabel)
  IN [a \in {account(f) : f \in DOMAIN mm} \ {""} |->
        [st \in {stream(f) : f \in {g \in DOMAIN mm : account(g) = a}} \ {""} |->
           [sv \in {server(f) : f \in {g \in DOMAIN mm : account(g) = a /\ stream(g) = st}}
                   \ {""} |-> TRUE]]]

\* shrinkMapOfSets (reader.go:277-288)
shrinkMapOfSets(m) ==
  [keysList |-> rangeKeys(DOMAIN m),
   newMap |-> [k \in DOMAIN m |-> rangeKeys(DOMAIN m[k])]]

\* the orders in which the loop of reader.go:228 can visit the accounts
AccountOrders(m) ==
  {o \in [1..Cardinality(DOMAIN m) -> DOMAIN m] :
     \A i, j \in 1..Cardinality(DOMAIN m) : i # j => o[i] # o[j]}

\* streamsServers after the loop of reader.go:227-234 has visited the
\* accounts accountOrder[1..i]: a later assignment to a key replaces an earlier one
RECURSIVE streamsServers(_, _, _)
streamsServers(m, accountOrder, i) ==
  IF i = 0 THEN EmptyMap
  ELSE LET account == accountOrder[i]
           streamServers == shrinkMapOfSets(m[account]).newMap
           assigned == {account \o "/" \o stream : stream \in DOMAIN streamServers}
           earlier == streamsServers(m, accountOrder, i - 1)
       IN [key \in assigned \cup DOMAIN earlier |->
             IF key \in assigned
             THEN streamServers[CHOOSE stream \in DOMAIN streamServers :
                                  account \o "/" \o stream = key]
             ELSE earlier[key]]

\* getUniqueTags (reader.go:239-255)
getUniqueTags(mm, label) ==
  rangeKeys({t \in UNION {{mm[f][i] : i \in 1..Len(mm[f])} : f \in DOMAIN mm} : t.Name = label})

\* the index fields of the Reader literal (reader.go:257-271)
buildIndexes(mm, accountOrder) ==
  LET clusters == shrinkMapOfSets(clustersServersMap(mm))
      accounts == shrinkMapOfSets(accountsStreamsMap(mm))
  IN [accountTags |-> getUniqueTags(mm, accountTagLabel),
      clusterTags |-> getUniqueTags(mm, clusterTagLabel),
      serverTags |-> getUniqueTags(mm, serverTagLabel),
      streamTags |-> getUniqueTags(mm, streamTagLabel),
      accountNames |-> accounts.keysList,
      clusterNames |-> clusters.keysList,
      clustersServerNames |-> clusters.newMap,
      accountStreamNames |-> accounts.newMap,
      streamServerNames |-> streamsServers(accountsStreamsMap(mm), accountOrder,
                                           Len(accountOrder))]

\* NewReader (reader.go:118-272)
NewReader ==
  /\ ~crashed
  /\ ~reader.open
  /\ last.op # "NewReader" \/ last.res = "ok"
  /\ LET r == openArchive(archiveOk, container)
     IN /\ IF r.res = "ok"
           THEN \E accountOrder \in AccountOrders(accountsStreamsMap(r.reader.manifestMap)) :
                  reader' = r.reader @@ buildIndexes(r.reader.manifestMap, accountOrder)
           ELSE reader' = r.reader
        /\ last' = Call("NewReader", <<>>, r.res, r.err, "")
  /\ UNCHANGED <<zipWriter, fileWriter, manifestMap, container, archiveOk, crashed, failures>>
  /\ UNCHANGED <<namingVars, held, analysis>>

\* a manifest scan that stops at the first matching file
RECURSIVE matchFiles_firstOnly(_, _, _, _)
matchFiles_firstOnly(mm, remaining, queryTags, matchedFileNames) ==
  IF remaining = {} \/ Len(matchedFileNames) > 0 THEN matchedFileNames
  ELSE LET fileName == CHOOSE f \in remaining : TRUE
           fileTagSet == {mm[fileName][k] : k \in 1..Len(mm[fileName])}
           matches == \A q \in 1..Len(queryTags) : queryTags[q] \in fileTagSet
       IN matchFiles_firstOnly(mm, remaining \ {fileName}, queryTags,
                               IF matches THEN Append(matchedFileNames, fileName)
                               ELSE matchedFileNames)

\* the manifest scan of Reader.Load (reader.go:79-103).  Go ranges over the
\* map in an unspecified order; the order only permutes matchedFileNames.
RECURSIVE matchFiles(_, _, _, _)
matchFiles(mm, remaining, queryTags, matchedFileNames) ==
  IF remaining = {} THEN matchedFileNames
  ELSE LET fileName == CHOOSE f \in remaining : TRUE
           fileTagSet == {mm[fileName][k] : k \in 1..Len(mm[fileName])}
           matches == \A q \in 1..Len(queryTags) : queryTags[q] \in fileTagSet
       IN matchFiles(mm, remaining \ {fileName}, queryTags,
                     IF matches THEN Append(matchedFileNames, fileName) ELSE matchedFileNames)

\* Reader.Get (reader.go:55-66)
Get(r, name) ==
  IF name \notin DOMAIN r.filesMap
  THEN [res |-> "error", err |-> "file does not exist", out |-> ""]
  ELSE LET d == decodeArtifact(r.filesMap[name])
       IN IF d.kind # "ok"
          THEN [res |-> "error", err |-> "failed to decode", out |-> ""]
          ELSE [res |-> "ok", err |-> "", out |-> d.value]

ErrNoMatches == "no file matched the given query"
ErrMultipleMatches == "multiple files matched the given query"

\* Reader.Load (reader.go:73-116)
Load(r, queryTags) ==
  LET matchedFileNames == matchFiles(r.manifestMap, DOMAIN r.manifestMap, queryTags, <<>>)
  IN IF Len(matchedFileNames) < 1
     THEN [res |-> "error", err |-> ErrNoMatches, out |-> ""]
     ELSE IF Len(matchedFileNames) > 1
     THEN [res |-> "error", err |-> ErrMultipleMatches, out |-> ""]
     ELSE Get(r, matchedFileNames[1])

\* Queries the caller passes to Load: the tag lists artifacts are added with,
\* the empty query, a type alone, and a pair that matches nothing
QueryTagLists ==
  AddTagLists \cup RawTagLists \cup
  {<<>>, <<TagServerHealth>>, <<TagCluster("C1"), TagServer("S9")>>,
   <<TagAccount("A1"), TagServer("S1")>>}

LoadCall(queryTags) ==
  /\ ~crashed
  /\ reader.open
  /\ LET r == Load(reader, queryTags)
     IN last' = Call("Load", queryTags, r.res, r.err, r.out)
  /\ UNCHANGED <<zipWriter, fileWriter, manifestMap, container, archiveOk, crashed, failures, reader>>
  /\ UNCHANGED <<namingVars, held, analysis>>

Next ==
  \/ \E artifact \in Artifacts, tags \in AddTagLists, order \in RequiredOrders, io \in IOFailures :
       Add(artifact, tags, order, io)
  \/ \E tags \in RawTagLists, order \in RequiredOrders, io \in IOFailures :
       AddObjectCall("PROF", tags, order, io)
  \/ \E io \in IOFailures : AddCaptureLog("log", io)
  \/ \E metadata \in Artifacts, io \in IOFailures : AddCaptureMetadata(metadata, io)
  \/ \E io \in CloseFailures : Close(io)
  \/ NewReader
  \/ \E queryTags \in QueryTagLists : LoadCall(queryTags)

Spec == Init /\ [][Next]_vars

(***************************************************************************)
(* Specification of the Reader alone: NewReader is given an archive file   *)
(* that any tool may have written or edited, then queried.                 *)
(***************************************************************************)
\* Reader.GetFile (reader.go:42-52)
GetFile(r, name) ==
  IF name \notin DOMAIN r.filesMap
  THEN [res |-> "error", err |-> "file does not exist", content |-> rawBytes("")]
  ELSE [res |-> "ok", err |-> "", content |-> r.filesMap[name]]

\* tag lists and paths of the artifacts found in the archive files
healthTags == <<TagCluster("C1"), TagServer("S1"), TagServerHealth>>
accountTags == <<TagAccount("A1"), TagCluster("C1"), TagServer("S1"), TagServerHealth>>
healthPath == fileNameOf(healthTags, SourceOrder).path
accountPath == fileNameOf(accountTags, SourceOrder).path

\* manifests found in the archive files
ArchiveManifests ==
  {EmptyMap, healthPath :> healthTags, accountPath :> accountTags,
   (healthPath :> healthTags) @@ (accountPath :> accountTags)}

\* entries found in the archive files: manifests (one of them not JSON),
\* artifacts, the capture log and a file the package never writes
ArchiveEntries ==
  {[name |-> ManifestFileName, content |-> encodeManifest(m)] : m \in ArchiveManifests}
  \cup
  {[name |-> ManifestFileName, content |-> rawBytes("not json")],
   [name |-> healthPath, content |-> encodeArtifact(artifactNo(1))],
   [name |-> accountPath, content |-> encodeArtifact(artifactNo(2))],
   [name |-> captureLogName, content |-> rawBytes("log")],
   [name |-> "notes.txt", content |-> rawBytes("notes")]}

\* the archive files given to NewReader: up to MaxFiles entries in any order
ArchiveFiles == UNION {[1..n -> ArchiveEntries] : n \in 0..MaxFiles}

\* names the caller passes to GetFile
GetFileNames == {e.name : e \in ArchiveEntries} \cup {metadataName}

\* there is no Writer; the file is a zip archive, or it is not and holds nothing
InitReader ==
  /\ nTags = <<>>
  /\ nRes = NotCalled
  /\ zipWriter = "nil"
  /\ fileWriter = "nil"
  /\ manifestMap = EmptyMap
  /\ container \in ArchiveFiles
  /\ archiveOk \in BOOLEAN
  /\ ~archiveOk => container = <<>>
  /\ crashed = FALSE
  /\ failures = 0
  /\ reader = NoReader
  /\ last = [op |-> "none", tags |-> <<>>, res |-> "ok", err |-> "", out |-> ""]
  /\ held = NoList
  /\ analysis = NotAnalyzed

GetFileCall(name) ==
  /\ ~crashed
  /\ reader.open
  /\ LET r == GetFile(reader, name)
     IN last' = Call("GetFile", <<>>, r.res, r.err, name)
  /\ UNCHANGED <<zipWriter, fileWriter, manifestMap, container, archiveOk, crashed, failures, reader>>
  /\ UNCHANGED <<namingVars, held, analysis>>

NextReader ==
  \/ NewReader
  \/ \E queryTags \in QueryTagLists : LoadCall(queryTags)
  \/ \E name \in GetFileNames : GetFileCall(name)

SpecReader == InitReader /\ [][NextReader]_vars

(***************************************************************************)
(* The accessors of the Reader (reader.go:290-347).  What an accessor      *)
(* returns is a list and whether it shares its backing array with the      *)
(* list the Reader keeps.                                                  *)
(***************************************************************************)
\* shallowCopy that returns the slice it was given
shallowCopy_same(original) == [list |-> original, shared |-> TRUE]

\* shallowCopy (reader.go:345-347): the elements appended to a new array
shallowCopy(original) == [list |-> original, shared |-> FALSE]

\* make([]string, 0)
emptyList == [list |-> <<>>, shared |-> FALSE]

ListStreamTags(r) == shallowCopy(r.streamTags)
ListServerTags(r) == shallowCopy(r.serverTags)
ListClusterTags(r) == shallowCopy(r.clusterTags)
ListAccountTags(r) == shallowCopy(r.accountTags)
GetAccountNames(r) == shallowCopy(r.accountNames)
GetClusterNames(r) == shallowCopy(r.clusterNames)

GetAccountStreamNames(r, accountName) ==
  IF accountName \in DOMAIN r.accountStreamNames
  THEN shallowCopy(r.accountStreamNames[accountName])
  ELSE emptyList

GetClusterServerNames(r, clusterName) ==
  IF clusterName \in DOMAIN r.clustersServerNames
  THEN shallowCopy(r.clustersServerNames[clusterName])
  ELSE emptyList

GetStreamServerNames(r, accountName, streamName) ==
  IF accountName \o "/" \o streamName \in DOMAIN r.streamServerNames
  THEN shallowCopy(r.streamServerNames[accountName \o "/" \o streamName])
  ELSE emptyList

\* an accessor call: the caller now holds the list c, taken from the field
\* and key of the Reader
Hold(op, args, field, key, c) ==
  /\ ~crashed
  /\ reader.open
  /\ last' = Call(op, args, "ok", "", "")
  /\ held' = [field |-> field, key |-> key, list |-> c.list, shared |-> c.shared]
  /\ UNCHANGED <<zipWriter, fileWriter, manifestMap, container, archiveOk, crashed, failures, reader>>
  /\ UNCHANGED <<namingVars, analysis>>

ListStreamTagsCall == Hold("ListStreamTags", <<>>, "streamTags", <<>>, ListStreamTags(reader))
ListServerTagsCall == Hold("ListServerTags", <<>>, "serverTags", <<>>, ListServerTags(reader))
ListClusterTagsCall == Hold("ListClusterTags", <<>>, "clusterTags", <<>>, ListClusterTags(reader))
ListAccountTagsCall == Hold("ListAccountTags", <<>>, "accountTags", <<>>, ListAccountTags(reader))
GetAccountNamesCall == Hold("GetAccountNames", <<>>, "accountNames", <<>>, GetAccountNames(reader))
GetClusterNamesCall == Hold("GetClusterNames", <<>>, "clusterNames", <<>>, GetClusterNames(reader))

GetAccountStreamNamesCall(accountName) ==
  Hold("GetAccountStreamNames", <<accountName>>, "accountStreamNames", <<accountName>>,
       GetAccountStreamNames(reader, accountName))

GetClusterServerNamesCall(clusterName) ==
  Hold("GetClusterServerNames", <<clusterName>>, "clustersServerNames", <<clusterName>>,
       GetClusterServerNames(reader, clusterName))

GetStreamServerNamesCall(accountName, streamName) ==
  Hold("GetStreamServerNames", <<accountName, streamName>>, "streamServerNames",
       <<accountName \o "/" \o streamName>>,
       GetStreamServerNames(reader, accountName, streamName))

TagListFields == {"streamTags", "serverTags", "clusterTags", "accountTags"}

\* The caller overwrites the first element of the list it holds.  The write
\* reaches the Reader's own list only when the two share their array.
ModifyHeld ==
  /\ ~crashed
  /\ reader.open
  /\ Len(held.list) > 0
  /\ LET changed == IF held.field \in TagListFields
                    THEN Tag(held.list[1].Name, "overwritten")
                    ELSE "overwritten"
         list == [held.list EXCEPT ![1] = changed]
     IN /\ held.list[1] # changed
        /\ held' = [held EXCEPT !.list = list]
        /\ reader' = IF ~held.shared THEN reader
                     ELSE IF held.key = <<>>
                     THEN [reader EXCEPT ![held.field] = list]
                     ELSE [reader EXCEPT ![held.field][held.key[1]] = list]
        /\ last' = Call("modify", <<>>, "ok", "", "")
  /\ UNCHANGED <<zipWriter, fileWriter, manifestMap, container, archiveOk, crashed, failures>>
  /\ UNCHANGED <<namingVars, analysis>>

\* Reader.Get called by the user
GetCall(name) ==
  /\ ~crashed
  /\ reader.open
  /\ LET r == Get(reader, name)
     IN last' = Call("Get", <<>>, r.res, r.err, r.out)
  /\ UNCHANGED <<zipWriter, fileWriter, manifestMap, container, archiveOk, crashed, failures, reader>>
  /\ UNCHANGED <<namingVars, held, analysis>>

(***************************************************************************)
(* Specification of the indexes: an archive written by a Writer from a set *)
(* of tagged artifacts and closed, then opened and navigated.              *)
(***************************************************************************)
\* Tag lists of the artifacts of the archive; Add accepts every one of them
IndexTagLists ==
  {<<TagCluster("C1"), TagServer("S1"), TagServerHealth>>,
   <<TagCluster("C1"), TagServer("S2"), TagServerHealth>>,
   <<TagCluster("C2"), TagServer("S1"), TagServerHealth>>,
   <<TagAccount("A"), TagStream("B/C"), TagCluster("C1"), TagServer("S1"), TagStreamInfo>>,
   <<TagAccount("A/B"), TagStream("C"), TagCluster("C1"), TagServer("S2"), TagStreamInfo>>,
   <<TagCluster(""), TagServer("S3"), TagServerHealth>>,
   <<TagAccount("A"), TagCluster("C1"), TagServer("S1"), TagAccountInfo>>,
   <<TagAccount("A"), TagStream("ORDERS"), TagCluster("C2"), TagServer("S3"), TagStreamInfo>>}

\* names the caller passes to the accessors
IndexClusterNames == {"C1", "C2", "", "NO_SUCH_CLUSTER"}
IndexAccountNames == {"A", "A/B", "NO_SUCH_ACCOUNT"}
IndexStreamNames == {"B/C", "C", "ORDERS", "NO_SUCH_STREAM"}

\* queries and names the caller passes to Load, Get and GetFile
IndexQueries == {<<>>, <<TagCluster("C1")>>, <<TagCluster("C1"), TagServer("S1"), TagServerHealth>>}
IndexFileNames == {"capture/clusters/C1/S1/health.json", ManifestFileName, "notes.txt"}

\* the Writer after Add of one artifact per tag list, in the order given
RECURSIVE addAll(_, _)
addAll(tagLists, n) ==
  IF n = 0 THEN [res |-> "ok", err |-> "", manifestMap |-> EmptyMap, container |-> <<>>]
  ELSE LET w == addAll(tagLists, n - 1)
       IN AddObject("open", w.manifestMap, w.container, encodeArtifact(artifactNo(n)),
                    tagLists[n], SourceOrder, "none")

\* the Writer after those Adds and a Close
writeArchive(tagLists) ==
  LET w == addAll(tagLists, Len(tagLists))
  IN AddObject("open", w.manifestMap, w.container, encodeManifest(w.manifestMap),
               <<internalTagManifest>>, SourceOrder, "none")

InitIndex ==
  /\ nTags = <<>>
  /\ nRes = NotCalled
  /\ zipWriter = "nil"
  /\ fileWriter = "nil"
  /\ \E chosen \in SUBSET IndexTagLists :
       /\ Cardinality(chosen) <= MaxManifest
       /\ LET w == writeArchive(rangeKeys(chosen))
          IN /\ manifestMap = w.manifestMap
             /\ container = w.container
  /\ archiveOk = TRUE
  /\ crashed = FALSE
  /\ failures = 0
  /\ reader = NoReader
  /\ last = [op |-> "Close", tags |-> <<>>, res |-> "ok", err |-> "", out |-> ""]
  /\ held = NoList
  /\ analysis = NotAnalyzed

NextIndex ==
  \/ NewReader
  \/ \E queryTags \in IndexQueries : LoadCall(queryTags)
  \/ \E name \in IndexFileNames : GetCall(name)
  \/ \E name \in IndexFileNames : GetFileCall(name)
  \/ ListStreamTagsCall
  \/ ListServerTagsCall
  \/ ListClusterTagsCall
  \/ ListAccountTagsCall
  \/ GetAccountNamesCall
  \/ GetClusterNamesCall
  \/ \E accountName \in IndexAccountNames : GetAccountStreamNamesCall(accountName)
  \/ \E clusterName \in IndexClusterNames : GetClusterServerNamesCall(clusterName)
  \/ \E accountName \in IndexAccountNames, streamName \in IndexStreamNames :
       GetStreamServerNamesCall(accountName, streamName)
  \/ ModifyHeld

SpecIndex == InitIndex /\ [][NextIndex]_vars

(***************************************************************************)
(* The analyzer (paAnalyzeCmd): analyze opens the archive, runs its checks *)
(* in order and stops at the first check that returns an error.  A check   *)
(* walks the indexes of the Reader and loads one artifact per item.  The   *)
(* figures a check derives from the records it loaded are reduced to one   *)
(* bit: the first artifact value is a record with nothing to report.       *)
(***************************************************************************)
TagHealth == TagArtifactType(healtzArtifactType)
TagRoutes == TagArtifactType("routes")
TagGateways == TagArtifactType("gateways")
TagJetStream == TagArtifactType("jetstream")
TagAccounts == TagArtifactType("accounts")
TagStreamDetails == TagArtifactType("stream_details")

Skipped == "Skipped"
Pass == "Pass"
SomeIssues == "SomeIssues"

\* a check before its first Load
NoLoads == [status |-> Pass, err |-> "", wraps |-> "", warnings |-> {}, loaded |-> {}]

\* The Load loop of a check over its items, in order.  A check that tests
\* for ErrNoMatches logs a warning and goes on with the next Load; every
\* other error, and ErrNoMatches in a check that does not test for it, is
\* wrapped and returned with status Skipped.
RECURSIVE loadEach(_, _, _, _, _)
loadEach(r, queries, i, testsNoMatches, acc) ==
  IF i > Len(queries)
  THEN [acc EXCEPT !.status = IF acc.loaded \subseteq {artifactNo(1)} THEN Pass ELSE SomeIssues]
  ELSE LET l == Load(r, queries[i])
       IN IF testsNoMatches /\ l.res = "error" /\ l.err = ErrNoMatches
          THEN loadEach(r, queries, i + 1, testsNoMatches,
                        [acc EXCEPT !.warnings = @ \cup {queries[i]}])
          ELSE IF l.res = "error"
          THEN [acc EXCEPT !.status = Skipped, !.err = "failed to load", !.wraps = l.err]
          ELSE loadEach(r, queries, i + 1, testsNoMatches,
                        [acc EXCEPT !.loaded = @ \cup {l.out}])

\* the lists of a nested loop, one after the other
RECURSIVE flatten(_, _)
flatten(lists, i) ==
  IF i > Len(lists) THEN <<>> ELSE lists[i] \o flatten(lists, i + 1)

\* for _, serverTag := range r.ListServerTags()
serverQueries(r, typeTag) ==
  LET serverTags == ListServerTags(r).list
  IN [i \in 1..Len(serverTags) |-> <<serverTags[i], typeTag>>]

\* for each cluster name, for each name of GetClusterServerNames, one Load
\* per artifact type
clusterServerQueries(r, clusterNames, typeTags) ==
  flatten([c \in 1..Len(clusterNames) |->
             LET serverNames == GetClusterServerNames(r, clusterNames[c]).list
             IN flatten([s \in 1..Len(serverNames) |->
                           [t \in 1..Len(typeTags) |->
                              <<TagCluster(clusterNames[c]), TagServer(serverNames[s]),
                                typeTags[t]>>]], 1)], 1)

\* the cluster names of r.ListClusterTags()
clusterTagValues(r) ==
  LET clusterTags == ListClusterTags(r).list
  IN [i \in 1..Len(clusterTags) |-> clusterTags[i].Value]

\* for each account, for each of its streams, for each server of the stream
streamQueries(r, typeTag) ==
  LET accountNames == GetAccountNames(r).list
  IN flatten([a \in 1..Len(accountNames) |->
                LET streamNames == GetAccountStreamNames(r, accountNames[a]).list
                IN flatten([s \in 1..Len(streamNames) |->
                              LET serverNames ==
                                    GetStreamServerNames(r, accountNames[a], streamNames[s]).list
                              IN [v \in 1..Len(serverNames) |->
                                    <<TagAccount(accountNames[a]), TagStream(streamNames[s]),
                                      TagServer(serverNames[v]), typeTag>>]], 1)], 1)

\* for each account, for each server tag
accountServerQueries(r, typeTag) ==
  LET accountNames == GetAccountNames(r).list
      serverTags == ListServerTags(r).list
  IN flatten([a \in 1..Len(accountNames) |->
                [s \in 1..Len(serverTags) |->
                   <<serverTags[s], TagAccount(accountNames[a]), typeTag>>]], 1)

checkServerHealth(r) == loadEach(r, serverQueries(r, TagHealth), 1, TRUE, NoLoads)

\* the outcome of this check stays Pass unless a Load fails
checkServerVersions(r) ==
  LET c == loadEach(r, serverQueries(r, TagServerVars), 1, TRUE, NoLoads)
  IN IF c.err = "" THEN [c EXCEPT !.status = Pass] ELSE c

checkSlowConsumers(r) == loadEach(r, serverQueries(r, TagServerVars), 1, FALSE, NoLoads)

checkClusterMemoryUsageOutliers(r) ==
  loadEach(r, clusterServerQueries(r, GetClusterNames(r).list, <<TagServerVars>>), 1, TRUE, NoLoads)

checkLaggingStreamReplicas(r) == loadEach(r, streamQueries(r, TagStreamDetails), 1, TRUE, NoLoads)

checkCpuUsage(r) == loadEach(r, serverQueries(r, TagServerVars), 1, TRUE, NoLoads)

checkHighCardinalityStreams(r) == loadEach(r, streamQueries(r, TagStreamDetails), 1, TRUE, NoLoads)

checkHighCardinalityHAAssets(r) ==
  loadEach(r, clusterServerQueries(r, clusterTagValues(r), <<TagJetStream>>), 1, TRUE, NoLoads)

checkResourceLimits(r) ==
  loadEach(r, clusterServerQueries(r, clusterTagValues(r), <<TagJetStream>>), 1, TRUE, NoLoads)

checkAccountLimits(r) == loadEach(r, accountServerQueries(r, TagAccounts), 1, TRUE, NoLoads)

checkStreamLimits(r) == loadEach(r, streamQueries(r, TagStreamDetails), 1, TRUE, NoLoads)

checkMetaCluster(r) ==
  loadEach(r, clusterServerQueries(r, clusterTagValues(r), <<TagJetStream>>), 1, TRUE, NoLoads)

checkRoutesAndGateways(r) ==
  loadEach(r, clusterServerQueries(r, GetClusterNames(r).list, <<TagRoutes, TagGateways>>),
           1, TRUE, NoLoads)

\* the list of known checks, in the order analyze runs them
checkNames ==
  <<"Server health", "Uniform server version", "Slow consumers", "Cluster memory usage",
    "Lagging stream replicas", "CPU usage", "High cardinality streams",
    "High number of HA assets", "Reserved resources usage", "Account limits",
    "Stream limits", "Meta cluster state", "Routes and gateways">>

checkFunc(checkName, r) ==
  CASE checkName = "Server health" -> checkServerHealth(r)
    [] checkName = "Uniform server version" -> checkServerVersions(r)
    [] checkName = "Slow consumers" -> checkSlowConsumers(r)
    [] checkName = "Cluster memory usage" -> checkClusterMemoryUsageOutliers(r)
    [] checkName = "Lagging stream replicas" -> checkLaggingStreamReplicas(r)
    [] checkName = "CPU usage" -> checkCpuUsage(r)
    [] checkName = "High cardinality streams" -> checkHighCardinalityStreams(r)
    [] checkName = "High number of HA assets" -> checkHighCardinalityHAAssets(r)
    [] checkName = "Reserved resources usage" -> checkResourceLimits(r)
    [] checkName = "Account limits" -> checkAccountLimits(r)
    [] checkName = "Stream limits" -> checkStreamLimits(r)
    [] checkName = "Meta cluster state" -> checkMetaCluster(r)
    [] checkName = "Routes and gateways" -> checkRoutesAndGateways(r)

\* Run checks, one at the time: the first error ends the analysis
RECURSIVE runChecks(_, _, _)
runChecks(r, i, acc) ==
  IF i > Len(checkNames) THEN acc
  ELSE LET c == checkFunc(checkNames[i], r)
           logged == [acc EXCEPT !.warnings = @ \cup c.warnings]
       IN IF c.err # ""
          THEN [logged EXCEPT !.err = "check '" \o checkNames[i] \o "' error: " \o c.err,
                              !.wraps = c.wraps,
                              !.checkName = checkNames[i]]
          ELSE runChecks(r, i + 1, [logged EXCEPT !.checkOutcomes = Append(@, c.status)])

\* paAnalyzeCmd.analyze: the Reader it opens is its own and is closed when
\* it returns
analyze ==
  /\ ~crashed
  /\ LET o == openArchive(archiveOk, container)
         started == [NotAnalyzed EXCEPT !.ran = TRUE]
     IN IF o.res = "ok"
        THEN \E accountOrder \in AccountOrders(accountsStreamsMap(o.reader.manifestMap)) :
               analysis' = runChecks(o.reader @@ buildIndexes(o.reader.manifestMap, accountOrder),
                                     1, started)
        ELSE analysis' = [started EXCEPT !.err = o.err]
  /\ last' = Call("analyze", <<>>, IF analysis'.err = "" THEN "ok" ELSE "error",
                  analysis'.err, "")
  /\ UNCHANGED <<zipWriter, fileWriter, manifestMap, container, archiveOk, crashed,
                 failures, reader, held>>
  /\ UNCHANGED namingVars

(***************************************************************************)
(* Specification of the analyzer: an archive of server artifacts written   *)
(* by a Writer and closed, then analyzed, or opened and queried.           *)
(***************************************************************************)
\* Tag lists of the artifacts of the archive
AnalyzeTagLists ==
  {<<TagCluster("C1"), TagServer("S1"), TagServerHealth>>,
   <<TagCluster("C1"), TagServer("S1"), TagServerVars>>,
   <<TagCluster("C1"), TagServer("S2"), TagServerHealth>>,
   <<TagCluster("C1"), TagServer("S2"), TagServerVars>>,
   <<TagCluster("C2"), TagServer("S1"), TagServerHealth>>,
   <<TagCluster("C2"), TagServer("S1"), TagServerVars>>}

\* the queries the checks make for a server
AnalyzeQueries ==
  {<<TagServer(s), t>> : s \in {"S1", "S2"}, t \in {TagHealth, TagServerVars}}

InitAnalyze ==
  /\ nTags = <<>>
  /\ nRes = NotCalled
  /\ zipWriter = "nil"
  /\ fileWriter = "nil"
  /\ \E chosen \in SUBSET AnalyzeTagLists :
       /\ Cardinality(chosen) <= MaxManifest
       /\ LET w == writeArchive(rangeKeys(chosen))
          IN /\ manifestMap = w.manifestMap
             /\ container = w.container
  /\ archiveOk = TRUE
  /\ crashed = FALSE
  /\ failures = 0
  /\ reader = NoReader
  /\ last = [op |-> "Close", tags |-> <<>>, res |-> "ok", err |-> "", out |-> ""]
  /\ held = NoList
  /\ analysis = NotAnalyzed

NextAnalyze ==
  \/ analyze
  \/ NewReader
  \/ \E queryTags \in AnalyzeQueries : LoadCall(queryTags)

SpecAnalyze == InitAnalyze /\ [][NextAnalyze]_vars

(***************************************************************************)
(* Properties of the naming function (checked under SpecNaming)            *)
(***************************************************************************)
Called == nRes.kind # "none"

\* what a caller observes of a call: whether it got a path, and which
Outcome(r) == <<r.kind, r.path>>

TagSetOf(tags) == {tags[i] : i \in 1..Len(tags)}
HasLabel(tags, label) == \E i \in 1..Len(tags) : tags[i].Name = label
ValueOf(tags, label) == (CHOOSE t \in TagSetOf(tags) : t.Name = label).Value

\* C5: createFilenameFromTags gives the same outcome (the same path, or an
\* error both times) on every call with the same tag list, whatever the
\* iteration order of its required-tag table, and on the list with any two
\* adjacent tags exchanged; every tag list is a reachable state, so the
\* exchanges compose to every permutation.
C5_OrderIndependent ==
  Called =>
    /\ \A order \in RequiredOrders :
         Outcome(createFilenameFromTags(nTags, order)) = Outcome(nRes)
    /\ \A i \in 1..(Len(nTags) - 1) :
         Outcome(createFilenameFromTags(SwapAt(nTags, i), SourceOrder)) = Outcome(nRes)

C5_Witness ==
  /\ nRes.kind = "ok"
  /\ Len(nTags) = 5
  /\ nTags[1] = TagServerHealth
  /\ nTags[5] = TagAccount("A1")

\* C7: a tag list without an artifact_type tag or without a server tag, other
\* than the single manifest sentinel, gets an error and no path; so does the
\* empty list.
C7_MissingRequiredIsError ==
  (/\ Called
   /\ ~HasLabel(nTags, typeTagLabel) \/ ~HasLabel(nTags, serverTagLabel)
   /\ nTags # <<internalTagManifest>>)
  => (nRes.kind = "error" /\ nRes.path = "")

C7_Witness ==
  /\ nRes.kind = "error"
  /\ nTags = <<TagAccount("A1"), TagStream("ORDERS"), TagCluster("C1"), TagServerHealth>>

\* C8: a tag list holding two tags with the same dimension label, at any
\* positions and with equal or different values, gets an error.
C8_DuplicateDimensionIsError ==
  (/\ Called
   /\ \E i, j \in 1..Len(nTags) :
        i < j /\ nTags[i].Name = nTags[j].Name /\ nTags[i].Name \in dimensionTagsNames)
  => nRes.kind = "error"

C8_Witness ==
  /\ nRes.kind = "error"
  /\ nTags = <<TagCluster("C1"), TagServer("S1"), TagServerHealth, TagNoCluster>>

\* C9: an accepted tag list other than the manifest sentinel maps to the path
\* of the first applicable rule: stream, then account, then server (with the
\* profile exception); a stream tag without account or cluster tag is an error.
C9_ExpectedPath(tags) ==
  LET cluster == ValueOf(tags, clusterTagLabel)
      server == ValueOf(tags, serverTagLabel)
      type == ValueOf(tags, typeTagLabel)
  IN IF HasLabel(tags, streamTagLabel)
     THEN "capture/accounts/" \o ValueOf(tags, accountTagLabel) \o "/streams/"
          \o ValueOf(tags, streamTagLabel) \o "/replicas/" \o cluster \o "__" \o server
          \o "/" \o type \o ".json"
     ELSE IF HasLabel(tags, accountTagLabel)
     THEN "capture/accounts/" \o ValueOf(tags, accountTagLabel) \o "/servers/"
          \o cluster \o "__" \o server \o "/" \o type \o ".json"
     ELSE IF type = "profile"
     THEN "capture/profiles/" \o cluster \o "/" \o server \o "__"
          \o ValueOf(tags, profileNameTagLabel) \o ".prof"
     ELSE "capture/clusters/" \o cluster \o "/" \o server \o "/" \o type \o ".json"

C6_ClusterOptional ==
  (/\ Called
   /\ HasLabel(nTags, typeTagLabel) /\ HasLabel(nTags, serverTagLabel)
   /\ ~HasLabel(nTags, clusterTagLabel) /\ ~HasLabel(nTags, streamTagLabel)
   /\ \A i, j \in 1..Len(nTags) : i # j => nTags[i].Name # nTags[j].Name
   /\ ValueOf(nTags, typeTagLabel) = healtzArtifactType)
  => /\ nRes.kind = "ok"
     /\ nRes.path = IF HasLabel(nTags, accountTagLabel)
                    THEN "capture/accounts/" \o ValueOf(nTags, accountTagLabel)
                         \o "/servers/unclustered__" \o ValueOf(nTags, serverTagLabel)
                         \o "/health.json"
                    ELSE "capture/clusters/unclustered/" \o ValueOf(nTags, serverTagLabel)
                         \o "/health.json"

(***************************************************************************)
(* Properties of the Writer and the Reader (checked under Spec)            *)
(***************************************************************************)
AddOps == {"Add", "AddObject"}

AlreadyPresent(path) == "artifact " \o path \o " with identical tags is already present"

\* the manifest entries a query matches: those holding every query tag
Matching(mm, queryTags) ==
  {p \in DOMAIN mm : TagSetOf(queryTags) \subseteq TagSetOf(mm[p])}

\* container entry k was written by a successful Add (a JSON artifact filed in the manifest)
AddedArtifact(k) ==
  /\ container[k].name \in DOMAIN manifestMap
  /\ container[k].name # ManifestFileName
  /\ container[k].content.kind = "json-string"

\* the manifest entries of other artifacts whose tags include all the tags of path p
Supersets(p) ==
  {q \in DOMAIN manifestMap \ {p, ManifestFileName} :
     TagSetOf(manifestMap[p]) \subseteq TagSetOf(manifestMap[q])}

\* C1 as stated: once the archive is closed and reopened, Load with the tags
\* an artifact was added with succeeds and returns that artifact, whatever
\* other artifacts the archive holds.
C1_RoundTripAlways ==
  reader.open =>
    \A k \in 1..Len(container) :
      AddedArtifact(k) =>
        LET r == Load(reader, manifestMap[container[k].name])
        IN r.res = "ok" /\ r.out = artifactNo(k)

\* C1 amended: Load with the tags an artifact was added with never returns
\* ErrNoMatches; it succeeds and returns that artifact when no other artifact
\* was added with a tag set that includes all of those tags, and it returns
\* ErrMultipleMatches otherwise.
C1_RoundTrip ==
  reader.open =>
    \A k \in 1..Len(container) :
      AddedArtifact(k) =>
        LET r == Load(reader, manifestMap[container[k].name])
        IN /\ r.err # ErrNoMatches
           /\ IF Supersets(container[k].name) = {}
              THEN r.res = "ok" /\ r.out = artifactNo(k)
              ELSE r.err = ErrMultipleMatches

C1_Witness ==
  /\ reader.open
  /\ last.op = "Load"
  /\ last.tags = <<TagAccount("A1"), TagCluster("C1"), TagServer("S1"), TagServerHealth>>
  /\ last.res = "ok"
  /\ last.out = artifactNo(2)
  /\ Len(container) = 3

\* C2: Load returns ErrNoMatches exactly when no manifest entry holds every
\* query tag, ErrMultipleMatches exactly when more than one does, and with
\* exactly one it returns what decoding that entry gives; the empty query
\* matches every entry.
C2_LoadMatches ==
  last.op = "Load" =>
    LET m == Matching(reader.manifestMap, last.tags)
    IN /\ (last.err = ErrNoMatches) <=> (m = {})
       /\ (last.err = ErrMultipleMatches) <=> (Cardinality(m) > 1)
       /\ last.tags = <<>> => m = DOMAIN reader.manifestMap
       /\ Cardinality(m) = 1 =>
            LET d == decodeArtifact(reader.filesMap[CHOOSE p \in m : TRUE])
            IN IF d.kind = "ok"
               THEN last.res = "ok" /\ last.out = d.value
               ELSE last.res = "error" /\ last.err = "failed to decode"

C2_Witness ==
  /\ last.op = "Load"
  /\ last.tags = <<>>
  /\ last.err = ErrMultipleMatches
  /\ Cardinality(DOMAIN reader.manifestMap) = 2

\* C3: an Add or AddObject on an open Writer whose tags map to a path the
\* manifest already holds returns the 'already present' error, creates no
\* container entry and leaves the manifest as it was.
C3_DuplicateRejected ==
  [][(/\ last'.op \in AddOps
      /\ zipWriter = "open"
      /\ fileNameOf(last'.tags, SourceOrder).kind = "ok"
      /\ fileNameOf(last'.tags, SourceOrder).path \in DOMAIN manifestMap)
     => (/\ last'.res = "error"
         /\ last'.err = AlreadyPresent(fileNameOf(last'.tags, SourceOrder).path)
         /\ container' = container
         /\ manifestMap' = manifestMap)]_vars

C3_Witness ==
  /\ last.op = "Add"
  /\ last.err = AlreadyPresent("capture/clusters/C1/S1/health.json")
  /\ last.tags = <<TagServerHealth, TagServer("S1"), TagCluster("C1")>>
  /\ manifestMap["capture/clusters/C1/S1/health.json"]
       = <<TagCluster("C1"), TagServer("S1"), TagServerHealth>>
  /\ Len(container) = 1

\* C4 as stated: Add rejects an artifact as 'already present' only when its
\* tag set is identical to the tag set of an artifact already added.
C4_CollisionFree ==
  (/\ last.op \in AddOps
   /\ fileNameOf(last.tags, SourceOrder).kind = "ok"
   /\ last.err = AlreadyPresent(fileNameOf(last.tags, SourceOrder).path))
  => TagSetOf(last.tags) = TagSetOf(manifestMap[fileNameOf(last.tags, SourceOrder).path])

\* C10 as stated: no artifact added by a caller is stored at the reserved
\* manifest path.
C10_ManifestPathReserved ==
  (last.op \in AddOps /\ last.res = "ok") => ManifestFileName \notin DOMAIN manifestMap

\* C11 as stated: a tag list whose artifact type is 'profile' and that has no
\* profile_name tag gets an error, whichever of the cluster, account and
\* stream tags it holds.  The profile rule is only applied in the server
\* branch (tag.go:167-185): with an account tag the list is accepted.
C11_ProfileNeedsName ==
  (/\ Called
   /\ HasLabel(nTags, typeTagLabel)
   /\ \A i \in 1..Len(nTags) :
        nTags[i].Name = typeTagLabel => nTags[i].Value = profileArtifactType
   /\ ~HasLabel(nTags, profileNameTagLabel))
  => nRes.kind = "error"

ClosedWriter == "attempting to write into a closed writer"
FailedManifest == "failed to add manifest"

\* C12 as stated: an Add or AddObject that follows a Close call returns an
\* error and changes neither the container nor the manifest.  A Close that
\* fails to add the manifest returns before it closes anything
\* (writer.go:35-39), and the Writer keeps accepting artifacts.
C12_AddAfterAnyCloseFails ==
  [][(last.op = "Close" /\ last'.op \in AddOps)
     => (/\ last'.res = "error"
         /\ container' = container
         /\ manifestMap' = manifestMap)]_vars

\* What does hold of a closed Writer (C12): a Close that returns anything but
\* 'failed to add manifest' leaves the Writer closed, a closed Writer stays
\* closed, and every Add or AddObject on a closed Writer returns the
\* closed-writer error and changes neither the container nor the manifest.
C12_AddAfterCloseFails ==
  [][/\ (last'.op = "Close" /\ last'.err # FailedManifest) => zipWriter' = "nil"
     /\ zipWriter = "nil" => zipWriter' = "nil"
     /\ (zipWriter = "nil" /\ last'.op \in AddOps)
          => (/\ last'.res = "error"
              /\ last'.err = ClosedWriter
              /\ container' = container
              /\ manifestMap' = manifestMap)]_vars

C12_Witness ==
  /\ last.op = "Add"
  /\ last.err = ClosedWriter
  /\ last.tags = <<TagAccount("A1"), TagCluster("C1"), TagServer("S1"), TagServerHealth>>
  /\ zipWriter = "nil"
  /\ fileWriter = "nil"
  /\ Len(container) = 2

\* the container holds an entry at the reserved manifest path
HasManifestEntry(cont) == \E k \in 1..Len(cont) : cont[k].name = ManifestFileName

\* C13 as stated: over any sequence of Writer calls, a Close that writes the
\* manifest entry does so while the zip writer and the file are still open,
\* and the container holds no entry at the manifest path before it.  A Close
\* whose copy of the manifest fails leaves its entry in the container and the
\* Writer open (writer.go:35-39), and the next Close writes the entry again;
\* so does a Close after a caller's failed Add at the manifest path.
C13_ManifestWrittenOnce ==
  [][(last'.op = "Close" /\ container' # container)
     => (/\ zipWriter = "open"
         /\ fileWriter = "open"
         /\ ~HasManifestEntry(container))]_vars

EntryNames(cont) == {cont[k].name : k \in 1..Len(cont)}

\* C14: in every reachable state of the Writer, after calls that succeeded
\* and calls that failed, every path recorded in the Writer's manifest is the
\* name of an entry of the container.
C14_ManifestPathsExist ==
  DOMAIN manifestMap \subseteq EntryNames(container)

C14_Witness ==
  /\ last.op = "Add"
  /\ last.err = "failed to copy content"
  /\ Len(container) = 2
  /\ container[2].content = truncatedContent
  /\ DOMAIN manifestMap = {container[1].name}
  /\ container[2].name # container[1].name

\* the Writer's manifest without the entry Close records for the manifest itself
AddedWithTags == [p \in DOMAIN manifestMap \ {ManifestFileName} |-> manifestMap[p]]

\* C15: an archive written without any failing library call and closed by a
\* successful Close is opened by NewReader without error, and the manifest
\* the Reader holds maps exactly the paths of the artifacts stored by Add and
\* AddObject to exactly the tags they were added with; the manifest entry is
\* not listed in it.
C15_ManifestRoundTrip ==
  /\ (last.op = "NewReader" /\ archiveOk /\ failures = 0)
       => (last.res = "ok" /\ reader.open)
  /\ (reader.open /\ failures = 0)
       => (/\ reader.manifestMap = AddedWithTags
           /\ ManifestFileName \notin DOMAIN reader.manifestMap)

C15_Witness ==
  /\ last.op = "NewReader"
  /\ last.res = "ok"
  /\ failures = 0
  /\ EntryNames(container) =
       {"capture/accounts/A1/streams/ORDERS/replicas/C1__S2/stream_info.json",
        captureLogName, ManifestFileName}
  /\ reader.manifestMap["capture/accounts/A1/streams/ORDERS/replicas/C1__S2/stream_info.json"]
       = <<TagAccount("A1"), TagStream("ORDERS"), TagCluster("C1"), TagServer("S2"), TagStreamInfo>>

SidebandNames == {captureLogName, metadataName}

\* C16: entries written by AddCaptureLog and AddCaptureMetadata are never
\* recorded in the manifest, neither the Writer's nor the one the Reader
\* loads, and no Load query, whatever its tags, returns the value of a
\* sideband entry.
C16_SidebandNotIndexed ==
  /\ DOMAIN manifestMap \cap SidebandNames = {}
  /\ DOMAIN reader.manifestMap \cap SidebandNames = {}
  /\ reader.open =>
       \A queryTags \in QueryTagLists :
         LET r == Load(reader, queryTags)
         IN /\ Matching(reader.manifestMap, queryTags) \cap SidebandNames = {}
            /\ r.res = "ok" =>
                 \A k \in 1..Len(container) :
                   container[k].name \in SidebandNames => r.out # artifactNo(k)

C16_Witness ==
  /\ last.op = "Load"
  /\ last.tags = <<>>
  /\ last.res = "ok"
  /\ last.out = artifactNo(2)
  /\ Len(container) = 3
  /\ container[1].name = metadataName
  /\ container[1].content = encodeArtifact(artifactNo(1))

\* C17 as stated: when the only container entries the loaded manifest does
\* not list are the manifest itself, the capture log and the capture
\* metadata, NewReader emits no 'not present in manifest' warning.  The
\* check of reader.go:166-174 skips the manifest only.
C17_SidebandExempt ==
  (/\ reader.open
   /\ DOMAIN reader.filesMap \ DOMAIN reader.manifestMap
        \subseteq {ManifestFileName} \cup SidebandNames)
  => reader.warnings = {}

(***************************************************************************)
(* Properties of NewReader on any archive file (checked under SpecReader)  *)
(***************************************************************************)
\* the entry a zip reader's name lookup gives: the last one of that name
LastEntry(cont, name) ==
  cont[CHOOSE k \in 1..Len(cont) :
         /\ cont[k].name = name
         /\ \A j \in (k + 1)..Len(cont) : cont[j].name # name]

\* the archive has a manifest entry and it is a JSON object
ManifestReadable ==
  /\ archiveOk
  /\ ManifestFileName \in EntryNames(container)
  /\ LastEntry(container, ManifestFileName).content.kind = "json-object"

\* the paths listed by the manifest of the archive
ListedPaths == {e[1] : e \in LastEntry(container, ManifestFileName).content.members}

IntegrityError == "file is in manifest, but not present in archive"
ManifestNotFound == "manifest file not found in archive"

\* C18: NewReader fails with the integrity error and returns no Reader
\* whenever the decoded manifest lists at least one path that is not the name
\* of an entry of the container.
C18_MissingFileIsFatal ==
  (/\ last.op = "NewReader"
   /\ ManifestReadable
   /\ ~(ListedPaths \subseteq EntryNames(container)))
  => (/\ last.res = "error"
      /\ last.err = IntegrityError
      /\ reader = NoReader)

C18_Witness ==
  /\ last.op = "NewReader"
  /\ last.err = IntegrityError
  /\ Len(container) = 3
  /\ ListedPaths = {healthPath, accountPath}
  /\ EntryNames(container) = {ManifestFileName, healthPath, "notes.txt"}

\* C19: NewReader fails with the 'manifest not found' error and returns no
\* Reader whenever the archive has no entry at the reserved manifest path,
\* whatever other entries it holds.
C19_MissingManifestIsFatal ==
  (/\ last.op = "NewReader"
   /\ archiveOk
   /\ ManifestFileName \notin EntryNames(container))
  => (/\ last.res = "error"
      /\ last.err = ManifestNotFound
      /\ reader = NoReader)

C19_Witness ==
  /\ last.op = "NewReader"
  /\ last.err = ManifestNotFound
  /\ EntryNames(container) = {healthPath, accountPath, captureLogName}

\* C20: entries the manifest does not list never make NewReader fail: when
\* the manifest entry is there and decodes and every path it lists has an
\* entry, NewReader succeeds whatever other entries the archive holds; every
\* unlisted entry is returned by GetFile for its exact path, and no Load
\* query matches it.
C20_UntrackedTolerated ==
  (/\ last.op \in {"NewReader", "Load", "GetFile"}
   /\ ManifestReadable
   /\ ListedPaths \subseteq EntryNames(container))
  => (/\ reader.open
      /\ last.op = "NewReader" => last.res = "ok"
      /\ \A name \in EntryNames(container) \ ListedPaths :
           /\ GetFile(reader, name).res = "ok"
           /\ GetFile(reader, name).content = LastEntry(container, name).content
           /\ \A queryTags \in QueryTagLists :
                LET matched == matchFiles(reader.manifestMap, DOMAIN reader.manifestMap,
                                          queryTags, <<>>)
                IN \A i \in 1..Len(matched) : matched[i] # name)

C20_Witness ==
  /\ last.op = "GetFile"
  /\ last.out = "notes.txt"
  /\ last.res = "ok"
  /\ Len(container) = 3
  /\ ListedPaths = {healthPath}
  /\ reader.warnings = {"notes.txt"}

(***************************************************************************)
(* Properties of the indexes and accessors (checked under SpecIndex)       *)
(***************************************************************************)
Elements(list) == {list[i] : i \in 1..Len(list)}
NoRepeats(list) == \A i, j \in 1..Len(list) : i # j => list[i] # list[j]

\* every tag of the manifest the Reader loaded
ManifestTags == UNION {TagSetOf(reader.manifestMap[f]) : f \in DOMAIN reader.manifestMap}

\* the values the tags of a label take in the manifest
ValuesOf(label) == {t.Value : t \in {u \in ManifestTags : u.Name = label}}

\* the manifest entries that carry all the given tags
EntriesWith(tags) == {f \in DOMAIN reader.manifestMap : tags \subseteq TagSetOf(reader.manifestMap[f])}

\* the server names of the manifest entries that carry all the given tags
ServersWith(tags) ==
  {t.Value : t \in {u \in UNION {TagSetOf(reader.manifestMap[f]) : f \in EntriesWith(tags)} :
                      u.Name = serverTagLabel}}

\* C21 as stated: GetClusterNames returns exactly the cluster values that
\* occur in the manifest, and GetClusterServerNames(c) exactly the server
\* names of the entries tagged cluster=c, each name once.  A cluster tag
\* whose value is the empty string is taken for a missing tag
\* (reader.go:197) and its entry is left out of both.
C21_ClusterIndexExact ==
  reader.open =>
    /\ Elements(GetClusterNames(reader).list) = ValuesOf(clusterTagLabel)
    /\ NoRepeats(GetClusterNames(reader).list)
    /\ \A c \in ValuesOf(clusterTagLabel) \cup IndexClusterNames :
         /\ Elements(GetClusterServerNames(reader, c).list) = ServersWith({TagCluster(c)})
         /\ NoRepeats(GetClusterServerNames(reader, c).list)


\* What does hold of the cluster index (C21): the same with the empty string
\* left out of the cluster values and of the server names.
C21_ClusterIndexNonEmpty ==
  reader.open =>
    /\ Elements(GetClusterNames(reader).list) = ValuesOf(clusterTagLabel) \ {""}
    /\ NoRepeats(GetClusterNames(reader).list)
    /\ \A c \in (ValuesOf(clusterTagLabel) \cup IndexClusterNames) \ {""} :
         /\ Elements(GetClusterServerNames(reader, c).list) = ServersWith({TagCluster(c)}) \ {""}
         /\ NoRepeats(GetClusterServerNames(reader, c).list)


\* the streams of the manifest entries tagged with the account
StreamsWith(accountName) ==
  {t.Value : t \in {u \in UNION {TagSetOf(reader.manifestMap[f]) :
                                   f \in EntriesWith({TagAccount(accountName)})} :
                      u.Name = streamTagLabel}}

\* C22 as stated: GetStreamServerNames(a, s) returns exactly the server names
\* of the manifest entries tagged account=a and stream=s and nothing of
\* another (account, stream) pair, and GetAccountStreamNames(a) exactly the
\* streams that occur with account=a.  The index is keyed by the string
\* account + "/" + stream (reader.go:231, 336), which two pairs can share.
C22_StreamIndexExact ==
  reader.open =>
    \A accountName \in IndexAccountNames :
      /\ Elements(GetAccountStreamNames(reader, accountName).list) = StreamsWith(accountName)
      /\ \A streamName \in IndexStreamNames :
           Elements(GetStreamServerNames(reader, accountName, streamName).list)
             = ServersWith({TagAccount(accountName), TagStream(streamName)})

\* What does hold of the stream index (C22): the same for the pairs whose
\* key no other pair of the manifest shares.
C22_StreamIndexNoSharedKey ==
  reader.open =>
    \A accountName \in IndexAccountNames :
      /\ Elements(GetAccountStreamNames(reader, accountName).list) = StreamsWith(accountName)
      /\ \A streamName \in IndexStreamNames :
           (\A a \in ValuesOf(accountTagLabel) :
              \A st \in StreamsWith(a) :
                (a \o "/" \o st = accountName \o "/" \o streamName)
                  => (a = accountName /\ st = streamName))
           => Elements(GetStreamServerNames(reader, accountName, streamName).list)
                = ServersWith({TagAccount(accountName), TagStream(streamName)})


\* C23 as stated: for a cluster, an account or an (account, stream) pair that
\* does not occur in the manifest, GetClusterServerNames,
\* GetAccountStreamNames and GetStreamServerNames return an empty list.  A
\* pair that does not occur can share its key with one that does.
C23_UnknownKeyIsEmpty ==
  reader.open =>
    /\ \A clusterName \in IndexClusterNames \ ValuesOf(clusterTagLabel) :
         GetClusterServerNames(reader, clusterName).list = <<>>
    /\ \A accountName \in IndexAccountNames \ ValuesOf(accountTagLabel) :
         GetAccountStreamNames(reader, accountName).list = <<>>
    /\ \A accountName \in IndexAccountNames, streamName \in IndexStreamNames :
         EntriesWith({TagAccount(accountName), TagStream(streamName)}) = {}
           => GetStreamServerNames(reader, accountName, streamName).list = <<>>

\* What does hold of unknown keys (C23): the same for the clusters, the
\* accounts, and the pairs whose key account/stream is not the key of a pair
\* of the manifest.
C23_UnknownKeyIsEmptyNoSharedKey ==
  reader.open =>
    /\ \A clusterName \in IndexClusterNames \ ValuesOf(clusterTagLabel) :
         GetClusterServerNames(reader, clusterName).list = <<>>
    /\ \A accountName \in IndexAccountNames \ ValuesOf(accountTagLabel) :
         GetAccountStreamNames(reader, accountName).list = <<>>
    /\ \A accountName \in IndexAccountNames, streamName \in IndexStreamNames :
         (\A a \in ValuesOf(accountTagLabel) :
            \A st \in StreamsWith(a) : a \o "/" \o st # accountName \o "/" \o streamName)
           => GetStreamServerNames(reader, accountName, streamName).list = <<>>


\* C30 as stated: each List*Tags accessor returns every distinct tag of its
\* dimension exactly once, the values of ListClusterTags are the names
\* GetClusterNames returns and the values of ListAccountTags the names
\* GetAccountNames returns.  A tag with the empty value is listed by
\* getUniqueTags (reader.go:239-255) and skipped by the index loop
\* (reader.go:197, 208).
C30_ViewsAgree ==
  reader.open =>
    /\ Elements(ListClusterTags(reader).list) = {t \in ManifestTags : t.Name = clusterTagLabel}
    /\ Elements(ListAccountTags(reader).list) = {t \in ManifestTags : t.Name = accountTagLabel}
    /\ Elements(ListServerTags(reader).list) = {t \in ManifestTags : t.Name = serverTagLabel}
    /\ Elements(ListStreamTags(reader).list) = {t \in ManifestTags : t.Name = streamTagLabel}
    /\ NoRepeats(ListClusterTags(reader).list)
    /\ NoRepeats(ListAccountTags(reader).list)
    /\ NoRepeats(ListServerTags(reader).list)
    /\ NoRepeats(ListStreamTags(reader).list)
    /\ {t.Value : t \in Elements(ListClusterTags(reader).list)}
         = Elements(GetClusterNames(reader).list)
    /\ {t.Value : t \in Elements(ListAccountTags(reader).list)}
         = Elements(GetAccountNames(reader).list)

\* What does hold of the two views (C30): the List*Tags accessors return
\* every distinct tag once, and the names are the non-empty values of the tags.
C30_ViewsAgreeNonEmpty ==
  reader.open =>
    /\ Elements(ListClusterTags(reader).list) = {t \in ManifestTags : t.Name = clusterTagLabel}
    /\ Elements(ListAccountTags(reader).list) = {t \in ManifestTags : t.Name = accountTagLabel}
    /\ Elements(ListServerTags(reader).list) = {t \in ManifestTags : t.Name = serverTagLabel}
    /\ Elements(ListStreamTags(reader).list) = {t \in ManifestTags : t.Name = streamTagLabel}
    /\ NoRepeats(ListClusterTags(reader).list)
    /\ NoRepeats(ListAccountTags(reader).list)
    /\ NoRepeats(ListServerTags(reader).list)
    /\ NoRepeats(ListStreamTags(reader).list)
    /\ {t.Value : t \in Elements(ListClusterTags(reader).list)} \ {""}
         = Elements(GetClusterNames(reader).list)
    /\ {t.Value : t \in Elements(ListAccountTags(reader).list)} \ {""}
         = Elements(GetAccountNames(reader).list)


\* everything a caller can ask of the Reader r and what it is answered
Answers(r) ==
  [tags |-> <<ListStreamTags(r).list, ListServerTags(r).list, ListClusterTags(r).list,
              ListAccountTags(r).list>>,
   names |-> <<GetAccountNames(r).list, GetClusterNames(r).list>>,
   streams |-> [a \in IndexAccountNames |-> GetAccountStreamNames(r, a).list],
   servers |-> [c \in IndexClusterNames |-> GetClusterServerNames(r, c).list],
   replicas |-> [p \in IndexAccountNames \X IndexStreamNames |->
                   GetStreamServerNames(r, p[1], p[2]).list],
   loads |-> [q \in IndexQueries |-> Load(r, q)],
   files |-> [n \in IndexFileNames |-> <<Get(r, n), GetFile(r, n)>>]]

\* C24: once the Reader is open, no GetFile, Get, Load or accessor call and
\* no write of a caller to a list an accessor returned changes the answer of
\* any accessor or of any Load query; so every answer stays what it was
\* right after NewReader.
C24_ReaderImmutable ==
  [][reader.open => Answers(reader') = Answers(reader)]_vars

C24_Witness ==
  /\ last.op = "modify"
  /\ held.field = "clustersServerNames"
  /\ held.key = <<"C1">>
  /\ Elements(held.list) = {"overwritten", "S2"}
  /\ Elements(GetClusterServerNames(reader, "C1").list) = {"S1", "S2"}


(***************************************************************************)
(* Properties of the analyzer (checked under SpecAnalyze)                  *)
(***************************************************************************)
\* C25: every analyzer check treats ErrNoMatches from Reader.Load as missing
\* data, so a run of the analyzer is never aborted by an error that wraps
\* ErrNoMatches; the errors that abort it are the other Load errors.
C25_NoMatchesIsSkipped ==
  analysis.ran /\ analysis.err # "" => analysis.wraps # ErrNoMatches

\* What does hold: the one check that returns ErrNoMatches is the check for
\* slow consumers
C25_NoMatchesAbortsSlowConsumersOnly ==
  analysis.ran /\ analysis.wraps = ErrNoMatches => analysis.checkName = "Slow consumers"

\* What does hold: a query of a check that matches several files aborts the
\* analysis
C25_MultipleMatchesAbort ==
  analysis.ran /\ analysis.err = "" =>
    \A queryTags \in AnalyzeQueries :
      Load(openArchive(archiveOk, container).reader, queryTags).err # ErrMultipleMatches

C25_MultipleMatchesWitness ==
  analysis.ran /\ analysis.wraps = ErrMultipleMatches

C25_CompleteWitness ==
  analysis.ran /\ analysis.err = "" /\ Len(analysis.checkOutcomes) = Len(checkNames)
    /\ analysis.warnings # {}


(***************************************************************************)
(* Properties of the Writer's failures (checked under Spec)                *)
(***************************************************************************)
\* C26: a call of Add or AddObject that returns an error, whatever the
\* reason, leaves the Writer's manifest as it was before the call; so does
\* the Add of the manifest that Close makes.
C26_FailedAddKeepsManifest ==
  [][(\/ last'.op \in AddOps /\ last'.res = "error"
      \/ last'.op = "Close" /\ last'.err = "failed to add manifest")
       => manifestMap' = manifestMap]_vars

\* an Add whose copy failed on a Writer that already has an entry in its
\* manifest: the container got an entry, the manifest did not
C26_Witness ==
  /\ last.op \in AddOps
  /\ last.res = "error"
  /\ last.err = "failed to copy content"
  /\ manifestMap # EmptyMap
  /\ \E i \in 1..Len(container) : container[i].name \notin DOMAIN manifestMap


\* C27: when Close returns, with success or with an error, the zip writer
\* and the file handle have both been released.
C27_CloseReleasesHandles ==
  last.op = "Close" => zipWriter = "nil" /\ fileWriter = "nil"

\* What does hold: a Close that returns nil has released both handles
C27_SuccessfulCloseReleasesHandles ==
  last.op = "Close" /\ last.res = "ok" => zipWriter = "nil" /\ fileWriter = "nil"

C27_SuccessfulCloseWitness ==
  last.op = "Close" /\ last.res = "ok" /\ Len(container) > 1

\* C28: after any sequence of Writer operations the container holds no two
\* entries with the same name.
C28_EntryNamesUnique ==
  \A i, j \in 1..Len(container) : container[i].name = container[j].name => i = j

\* What does hold: the entries that Add and AddObject completed, those the
\* manifest lists, are in the container once as long as no call has failed
C28_ListedNamesUniqueWithoutFailure ==
  failures = 0 =>
    \A i, j \in 1..Len(container) :
      /\ container[i].name = container[j].name
      /\ container[i].name \in DOMAIN manifestMap \ {ManifestFileName}
      => i = j

C28_ListedWitness ==
  /\ failures = 0
  /\ Cardinality(DOMAIN manifestMap \ {ManifestFileName}) > 1
  /\ Len(container) > 1

\* C29: AddCaptureLog and AddCaptureMetadata called on a Writer after Close
\* return an error, as Add does, and do not crash the program.
C29_SidebandAfterCloseFails ==
  last.op \in {"AddCaptureLog", "AddCaptureMetadata"} /\ zipWriter = "nil"
    => last.res = "error" /\ ~crashed

====
